---- MODULE Spec2Model ----
(***************************************************************************)
(* Model of the datadog-agent-binary build/packaging orchestrator:         *)
(* the CLI commands (build, install), the runtime wrapper, source          *)
(* acquisition, the dependency check, the build executor and the platform  *)
(* builders.  External programs (git, docker, go, dda, the file system,    *)
(* the network) are nondeterministic: every outcome the code can observe   *)
(* is an input of the action that observes it.                             *)
(***************************************************************************)
EXTENDS Integers, Sequences, FiniteSets, TLC

VARIABLES
    host,       \* [platform, arch]: process.platform and process.arch of the host
    processEnv, \* process.env of the running process, the parent of every command
    mode,       \* which entry point runs: "none", "current", "all", "install", "wrapper"
    copyStrict, \* revision of BaseBuilder.copyBinariesToOutput linked into the builders
    options,    \* command-line options: [version, source] (given or not)
    pc,         \* position of the single sequential control flow
    idx,        \* buildForAllPlatforms: index of the platform being built
    cur,        \* platform handed to buildForPlatform
    version,    \* resolved target version ("" while unresolved)
    fetches,    \* release-feed requests issued while resolving the version
    srcDir,     \* origins of the content of the source directory (extractTo)
    dlLog,      \* downloadSource: acquisition attempts of the current call, in order
    thrown,     \* error propagating out of buildForPlatform / the CLI try block
    steps,      \* build(): steps of the current build invocation, in order
    failed,     \* build(): the step that failed and its error
    result,     \* build(): the BuildResult returned by the current invocation
    nReturned,  \* build(): number of BuildResults returned by the current invocation
    results,    \* platform and success flag of the BuildResults the caller holds, in order
    built,      \* the source tree holds the main binary where the copy step reads it
    outBin,     \* the main binary is present at the output path
    lastExec,   \* the last executeCommand call: command, process outcome, what it did
    missing,    \* checkBuildDependencies: tools found missing by the last check
    bm,         \* BinaryManager.ensureBinary: revision, inputs and outcome of the call
    wrap,       \* runtime wrapper: its argv, what it spawned, how the child ended
    exitCode,   \* process exit code of the CLI (NotExited while running)
    packageJson, \* the umbrella package.json: version and optionalDependencies
    npm,        \* npm/<platform name>/: what the packaging script has written there
    script,     \* the packaging scripts: whether the update ran, platforms still to package
    gopath      \* build/<name>/go: the GOPATH symlink, links created, CLI runs so far

vars == <<host, processEnv, mode, copyStrict, options, pc, idx, cur, version, fetches, srcDir, dlLog, thrown,
          steps, failed, result, nReturned, results, built, outBin,
          lastExec, missing, bm, wrap, exitCode, packageJson, npm, script, gopath>>

(***************************************************************************)
(* Bounds of the model.                                                    *)
(***************************************************************************)
MaxExitCode == 2        \* child processes exit with a code in 0..MaxExitCode
MaxPlatforms == 2       \* buildForAllPlatforms walks this many entries of the list
MaxBuilds == 2          \* runs of the build command on one host, one after the other

(***************************************************************************)
(* Values.                                                                 *)
(***************************************************************************)
Undefined == "undefined"
NotExited == "running"
NoError == [name |-> "none"]
NoResult == [success |-> FALSE, platform |-> Undefined, outputPath |-> Undefined,
             error |-> Undefined, returned |-> FALSE]
NoExec == [command |-> "", outcome |-> [kind |-> "none"], ret |-> [threw |-> FALSE, value |-> ""]]
NoPlatform == [os |-> Undefined, arch |-> Undefined]
NoManager == [rev |-> "none"]
NoWrapper == [argv |-> <<>>]
NoDependencies == [k \in {} |-> ""]
NoPackages == [d \in {} |-> ""]
NoManifest == [name |-> Undefined, version |-> Undefined]
\* Before any build on this host: no GOPATH link, no link created, first run.
NoGoPath == [link |-> FALSE, symlinks |-> 0, runs |-> 1]

NoScript == [updated |-> FALSE, platforms |-> <<>>, dummy |-> FALSE, version |-> Undefined]

Hosts == { [platform |-> "linux",   arch |-> "x64"],
           [platform |-> "darwin",  arch |-> "arm64"],
           [platform |-> "win32",   arch |-> "x64"],
           [platform |-> "freebsd", arch |-> "x64"],
           [platform |-> "linux",   arch |-> "ia32"] }

Stdouts == {"", "v7.66.1\n"}
ExitCodes == 0..MaxExitCode

\* What a child process started by execSync can do.
ExecOutcomes ==
    [kind : {"exit"}, code : ExitCodes, stdout : Stdouts]
    \cup { [kind |-> "timeout", signal |-> "SIGTERM"],
           [kind |-> "spawn", errno |-> "ENOENT"] }

\* The outcomes the build pipeline distinguishes: exit codes and the timeout.
PipelineOutcomes ==
    [kind : {"exit"}, code : ExitCodes, stdout : {"v7.66.1\n"}]
    \cup { [kind |-> "timeout", signal |-> "SIGTERM"] }

\* State of the go.work file in the working directory of a command.
GoWorkStates == {"absent", "clean", "godebug", "unwritable"}

(***************************************************************************)
(* Platform model.  Two representations live in the code base: instances   *)
(* of class Platform (a subclass `cls` and an architecture, the OS only    *)
(* through getOS()), and the plain { os, arch } records of platform.ts's   *)
(* functions, which the multi-platform caller enumerates.                  *)
(***************************************************************************)
Platform(cls, arch) == [cls |-> cls, arch |-> arch]

SUPPORTED_PLATFORMS ==
    << Platform("Linux", "x86_64"), Platform("Linux", "arm64"),
       Platform("MacOS", "x86_64"), Platform("MacOS", "arm64"),
       Platform("Windows", "x86_64") >>

\* Platform.processArchToArchitecture: the normalised architecture, or a throw.
ProcessArchToArchitecture(h) ==
    CASE h.arch = "x64"   -> [threw |-> FALSE, value |-> "x86_64"]
      [] h.arch = "arm64" -> [threw |-> FALSE, value |-> "arm64"]
      [] OTHER -> [threw |-> TRUE,
                   error |-> [name |-> "Error",
                              message |-> "Unsupported architecture: " \o h.arch]]

\* Platform.current: Linux, MacOS, Windows or the Unknown platform.
PlatformCurrent(h) ==
    LET a == ProcessArchToArchitecture(h) IN
    IF a.threw THEN a
    ELSE CASE h.platform = "linux"  -> [threw |-> FALSE, value |-> Platform("Linux", a.value)]
           [] h.platform = "darwin" -> [threw |-> FALSE, value |-> Platform("MacOS", a.value)]
           [] h.platform = "win32"  -> [threw |-> FALSE, value |-> Platform("Windows", a.value)]
           [] OTHER -> [threw |-> FALSE, value |-> Platform("Unknown", a.value)]

\* getOS of the four Platform subclasses; Unknown.getOS throws.
GetOS(p) ==
    CASE p.cls = "Linux"   -> [threw |-> FALSE, value |-> "linux"]
      [] p.cls = "MacOS"   -> [threw |-> FALSE, value |-> "macos"]
      [] p.cls = "Windows" -> [threw |-> FALSE, value |-> "windows"]
      [] OTHER -> [threw |-> TRUE, error |-> [name |-> "Error", message |-> "Unknown OS"]]

\* getName with a fault: the architecture is left out of the name.
GetNameOsOnly(p) ==
    LET o == GetOS(p) IN
    IF o.threw THEN o ELSE [threw |-> FALSE, value |-> o.value]

\* Platform.getName: `${getOS()}-${getArch()}`.
GetName(p) ==
    LET o == GetOS(p) IN
    IF o.threw THEN o ELSE [threw |-> FALSE, value |-> o.value \o "-" \o p.arch]

\* getBinaryName of the Platform subclasses; Unknown.getBinaryName throws.
GetBinaryName(p) ==
    CASE p.cls \in {"Linux", "MacOS"} -> [threw |-> FALSE, value |-> "datadog-agent"]
      [] p.cls = "Windows" -> [threw |-> FALSE, value |-> "datadog-agent.exe"]
      [] OTHER -> [threw |-> TRUE,
                   error |-> [name |-> "Error", message |-> "Unknown binary name"]]

\* detectPlatform() of platform.ts: a plain record, or a throw on a host
\* outside linux/win32/darwin x x64/arm64.
DetectPlatform(h) ==
    IF h.platform \notin {"linux", "win32", "darwin"}
    THEN [threw |-> TRUE,
          error |-> [name |-> "Error", message |-> "Unsupported platform: " \o h.platform]]
    ELSE IF h.arch \notin {"x64", "arm64"}
         THEN [threw |-> TRUE,
               error |-> [name |-> "Error",
                          message |-> "Unsupported architecture: " \o h.arch]]
         ELSE [threw |-> FALSE,
               value |-> [os |-> IF h.platform = "win32" THEN "windows" ELSE h.platform,
                          arch |-> h.arch]]

\* getPlatformString: `${platform.os}-${platform.arch}`.
GetPlatformString(p) == p.os \o "-" \o p.arch

\* getAllSupportedPlatforms() of platform.ts's functions.
GetAllSupportedPlatforms ==
    << [os |-> "linux", arch |-> "x64"],   [os |-> "linux", arch |-> "arm64"],
       [os |-> "windows", arch |-> "x64"], [os |-> "windows", arch |-> "arm64"],
       [os |-> "darwin", arch |-> "x64"],  [os |-> "darwin", arch |-> "arm64"] >>

\* validatePlatform: throws unless the record is one of the supported ones.
ValidatePlatform(p) ==
    IF \E i \in DOMAIN GetAllSupportedPlatforms : GetAllSupportedPlatforms[i] = p
    THEN [threw |-> FALSE, value |-> Undefined]
    ELSE [threw |-> TRUE,
          error |-> [name |-> "Error",
                     message |-> "Unsupported platform: " \o GetPlatformString(p)]]

(***************************************************************************)
(* Build executor (BaseBuilder.executeCommand).                            *)
(***************************************************************************)
\* child_process.execSync: stdout on exit code 0, otherwise an error that
\* carries the exit code in `status` (null when the child was killed or never ran).
ExecSync(command, o) ==
    CASE o.kind = "exit" /\ o.code = 0 ->
            [threw |-> FALSE, value |-> o.stdout]
      [] o.kind = "exit" /\ o.code # 0 ->
            [threw |-> TRUE,
             error |-> [name |-> "Error", message |-> "Command failed: " \o command,
                        exited |-> TRUE, status |-> o.code]]
      [] o.kind = "timeout" ->
            [threw |-> TRUE,
             error |-> [name |-> "Error", message |-> "spawnSync /bin/sh ETIMEDOUT",
                        exited |-> FALSE, signal |-> o.signal]]
      [] OTHER ->
            [threw |-> TRUE,
             error |-> [name |-> "Error", message |-> "spawnSync /bin/sh " \o o.errno,
                        exited |-> FALSE, signal |-> "none"]]

\* BaseBuilder.handleGoWorkspaceIssues: strips unsupported godebug directives
\* from go.work; every file-system failure is caught inside.
HandleGoWorkspaceIssues(gw) ==
    CASE gw = "godebug"    -> [threw |-> FALSE, goWork |-> "clean"]
      [] gw = "unwritable" -> [threw |-> FALSE, goWork |-> "unwritable"]
      [] OTHER             -> [threw |-> FALSE, goWork |-> gw]

\* executeCommand with a faulty catch block: it logs and does not rethrow.
ExecuteCommandSwallow(command, o, gw) ==
    LET r == ExecSync(command, o) IN
    IF r.threw THEN [threw |-> FALSE, value |-> Undefined] ELSE r

\* BaseBuilder.executeCommand: try { go.work fix-up; execSync } catch { log; rethrow }.
ExecuteCommand(command, o, gw) ==
    LET w == HandleGoWorkspaceIssues(gw) IN
    IF w.threw
    THEN [threw |-> TRUE, error |-> [name |-> "Error", message |-> "go.work",
                                     exited |-> FALSE, signal |-> "none"]]
    ELSE ExecSync(command, o)

(***************************************************************************)
(* Source acquisition and dependency check (DatadogAgentDownloader).       *)
(***************************************************************************)
\* `platform.os` as the downloader reads it: the plain platform records carry
\* the property; instances of class Platform do not (the read gives undefined).
OsProperty(p) == IF "os" \in DOMAIN p THEN p.os ELSE Undefined

\* checkBuildDependencies: the fixed per-OS list of required tools.
Requirements(os) ==
    CASE os = "linux"   -> <<"go", "make", "gcc", "git">>
      [] os = "darwin"  -> <<"go", "make", "gcc", "git", "xcode-select">>
      [] os = "windows" -> <<"go", "make", "gcc", "git">>
      [] OTHER          -> <<>>

AllTools == {"go", "make", "gcc", "git", "xcode-select"}

\* The loop of checkBuildDependencies: `which tool` throws for an absent tool,
\* the throw is caught and the tool pushed on `missing`.
RECURSIVE MissingTools(_, _)
MissingTools(req, present) ==
    IF req = <<>> THEN <<>>
    ELSE (IF Head(req) \in present THEN <<>> ELSE <<Head(req)>>)
         \o MissingTools(Tail(req), present)

\* checkBuildDependencies as a gate: a missing tool is raised as an error.
CheckBuildDependenciesGate(p, present) ==
    LET miss == MissingTools(Requirements(OsProperty(p)), present) IN
    IF miss # <<>>
    THEN [threw |-> TRUE, missing |-> miss, warned |-> FALSE]
    ELSE [threw |-> FALSE, missing |-> miss, warned |-> FALSE]

\* checkBuildDependencies: warns about the missing tools and returns.
CheckBuildDependencies(p, present) ==
    LET miss == MissingTools(Requirements(OsProperty(p)), present) IN
    [threw |-> FALSE, missing |-> miss, warned |-> miss # <<>>]

(***************************************************************************)
(* Builders: selection, names and paths.                                   *)
(***************************************************************************)
\* createBuilder with a fault: a platform without a known OS gets the Linux
\* builder instead of an error.
CreateBuilderDefaultLinux(p) ==
    LET o == GetOS(p) IN
    IF o.threw THEN [threw |-> FALSE, value |-> "LinuxBuilder"]
    ELSE CASE o.value = "windows" -> [threw |-> FALSE, value |-> "WindowsBuilder"]
           [] o.value = "macos"   -> [threw |-> FALSE, value |-> "MacOSBuilder"]
           [] OTHER               -> [threw |-> FALSE, value |-> "LinuxBuilder"]

\* createBuilder, switch on platform.getOS(): the builder class for the
\* OS family of a Platform instance.
CreateBuilderOfClass(p) ==
    LET o == GetOS(p) IN
    IF o.threw THEN o
    ELSE CASE o.value = "linux"   -> [threw |-> FALSE, value |-> "LinuxBuilder"]
           [] o.value = "windows" -> [threw |-> FALSE, value |-> "WindowsBuilder"]
           [] o.value = "macos"   -> [threw |-> FALSE, value |-> "MacOSBuilder"]
           [] OTHER -> [threw |-> TRUE,
                        error |-> [name |-> "Error",
                                   message |-> "Unsupported OS: " \o o.value]]

\* createBuilder, switch on platform.os: the builder class for a plain record.
CreateBuilderOfRecord(p) ==
    CASE p.os = "linux"   -> [threw |-> FALSE, value |-> "LinuxBuilder"]
      [] p.os = "windows" -> [threw |-> FALSE, value |-> "WindowsBuilder"]
      [] p.os = "darwin"  -> [threw |-> FALSE, value |-> "DarwinBuilder"]
      [] OTHER -> [threw |-> TRUE,
                   error |-> [name |-> "Error",
                              message |-> "Unsupported platform: " \o p.os]]

CreateBuilder(p) ==
    IF "os" \in DOMAIN p THEN CreateBuilderOfRecord(p) ELSE CreateBuilderOfClass(p)

\* The macOS builder in either naming; its build() is DarwinBuilder.build.
IsMacBuilder(builder) == builder \in {"MacOSBuilder", "DarwinBuilder"}

\* BaseBuilder.getOutputBinaryName, in the two revisions of the base class.
GetOutputBinaryName(p, strict) ==
    IF strict THEN "datadog-agent"
    ELSE IF OsProperty(p) = "windows" THEN "datadog-agent.exe" ELSE "datadog-agent"

\* The output directory the caller puts into the BuildConfig.
OutputDir(p, m) ==
    IF m = "current" THEN "build/" \o GetName(p).value \o "/bin"
    ELSE "/cwd/build/" \o GetPlatformString(p)

\* BaseBuilder.getAbsoluteOutputPath.
GetAbsoluteOutputPath(outputDir, fileName) ==
    IF SubSeq(outputDir, 1, 1) = "/"
    THEN outputDir \o "/" \o fileName
    ELSE "/cwd/" \o outputDir \o "/" \o fileName

\* The source directory buildForPlatform hands to downloadSource and to the
\* builder: build/<name>/src per platform in the single-platform revision,
\* the one directory `source` under the working directory in the earlier one.
SourceDir(p, m) ==
    IF m = "current" THEN "/cwd/build/" \o GetName(p).value \o "/src"
    ELSE "/cwd/source"

\* platformGoPath of buildForPlatform, where setupGoPathStructure puts the
\* symlink to the source directory.
PlatformGoPath(p) == "/cwd/build/" \o GetName(p).value \o "/go"

\* { ...a, ...b }: the entries of b override the same-named entries of a.
Spread(a, b) ==
    [k \in DOMAIN a \cup DOMAIN b |-> IF k \in DOMAIN b THEN b[k] ELSE a[k]]

NoVariables == [k \in {} |-> ""]

\* process.env as the shell hands it to the CLI.
DefaultEnv == [PATH |-> "/usr/bin"]

\* process.env.PATH as a template literal renders it.
PathOf(env) == IF "PATH" \in DOMAIN env THEN env["PATH"] ELSE Undefined

\* BaseBuilder.getEnvironmentVariables, in the revision with buildCommon and
\* the strict copy (GOPATH, PATH, GOARCH by platform.arch, CGO_ENABLED, then
\* getOSEnvironmentVariables(), which is empty) and in the revision with the
\* lenient copy (GOPATH, GOARCH by platform.arch, GOOS and CGO_ENABLED by
\* platform.os).  platform.arch is "x86_64" or "arm64" on a Platform
\* instance and "x64" or "arm64" on a plain record; only the cases "arm64"
\* and "x64" set GOARCH.
BaseEnvironmentVariables(p, strict, parent) ==
    LET goarch == CASE p.arch = "arm64" -> [GOARCH |-> "arm64"]
                    [] p.arch = "x64"   -> [GOARCH |-> "amd64"]
                    [] OTHER            -> NoVariables
        goos == CASE OsProperty(p) = "linux"   -> [GOOS |-> "linux", CGO_ENABLED |-> "1"]
                  [] OsProperty(p) = "darwin"  -> [GOOS |-> "darwin", CGO_ENABLED |-> "1"]
                  [] OsProperty(p) = "windows" -> [GOOS |-> "windows", CGO_ENABLED |-> "1"]
                  [] OTHER                     -> NoVariables
    IN
    IF strict
    THEN Spread(Spread([GOPATH |-> "/cwd/go", PATH |-> "/cwd/go/bin:" \o PathOf(parent)],
                       goarch),
                [CGO_ENABLED |-> "1"])
    ELSE Spread(Spread([GOPATH |-> "/cwd/go"], goarch), goos)

\* getEnvironmentVariables of the builder classes: the base class's
\* variables, then the overrides of LinuxBuilder, WindowsBuilder and the
\* macOS builder.
GetEnvironmentVariables(builder, p, strict, h, parent) ==
    LET env == BaseEnvironmentVariables(p, strict, parent) IN
    CASE builder = "LinuxBuilder" ->
           IF h.platform = "darwin" THEN Spread(env, [CGO_ENABLED |-> "0"]) ELSE env
      [] builder = "WindowsBuilder" ->
           IF h.platform = "darwin" THEN Spread(env, [CGO_ENABLED |-> "0"])
           ELSE IF p.arch = "arm64"
                THEN Spread(env, [CC |-> "aarch64-w64-mingw32-gcc",
                                  CXX |-> "aarch64-w64-mingw32-g++"])
                ELSE Spread(env, [CC |-> "x86_64-w64-mingw32-gcc",
                                  CXX |-> "x86_64-w64-mingw32-g++"])
      [] OTHER ->
           IF p.arch = "arm64"
           THEN Spread(env, [CC |-> "clang", CXX |-> "clang++",
                             CGO_CFLAGS |-> "-arch arm64", CGO_LDFLAGS |-> "-arch arm64"])
           ELSE Spread(env, [CC |-> "clang", CXX |-> "clang++",
                             CGO_CFLAGS |-> "-arch x86_64", CGO_LDFLAGS |-> "-arch x86_64"])

\* process.platform of the host on which the builder's target OS is native.
NativeHost(builder) ==
    CASE builder = "LinuxBuilder"   -> "linux"
      [] builder = "WindowsBuilder" -> "win32"
      [] OTHER                      -> "darwin"

\* BaseBuilder.buildCommon: the three commands of the shared build procedure.
BuildCommon ==
    << "pip install dda",
       "dda --no-interactive inv install-tools",
       "dda --no-interactive inv agent.build --build-exclude=systemd" >>

\* The commands of the macOS builder's build(), in order.  The two version
\* probes of buildAgent (git rev-parse HEAD, git describe) share one try
\* block whose catch ignores the error: they are one entry here.
DarwinCommands ==
    << "go mod download", "git rev-parse HEAD", "go build ./cmd/agent",
       "go build ./cmd/process-agent", "go build ./cmd/trace-agent",
       "go build ./cmd/system-probe" >>

NativeCommands(builder) ==
    IF IsMacBuilder(builder) THEN DarwinCommands ELSE BuildCommon

\* Version probes inside buildAgent: their failure is caught and ignored.
IsProbe(command) == command = "git rev-parse HEAD"

(***************************************************************************)
(* Initial state: a host, no command started yet.                          *)
(***************************************************************************)
Init ==
    /\ host \in Hosts
    /\ processEnv = DefaultEnv
    /\ mode = "none"
    /\ copyStrict = FALSE
    /\ options = [version |-> FALSE, source |-> FALSE]
    /\ pc = "start"
    /\ idx = 0
    /\ cur = NoPlatform
    /\ version = ""
    /\ fetches = 0
    /\ srcDir = {}
    /\ dlLog = <<>>
    /\ thrown = NoError
    /\ steps = <<>>
    /\ failed = [step |-> "none"]
    /\ result = NoResult
    /\ nReturned = 0
    /\ results = <<>>
    /\ built = FALSE
    /\ outBin = FALSE
    /\ lastExec = NoExec
    /\ missing = <<>>
    /\ bm = NoManager
    /\ wrap = NoWrapper
    /\ exitCode = NotExited
    /\ packageJson = [version |-> "0.1.0", optionalDependencies |-> NoDependencies]
    /\ npm = NoPackages
    /\ script = NoScript
    /\ gopath = NoGoPath

buildLocals == <<steps, failed, result, nReturned, lastExec>>
envVars == <<host, processEnv, mode, copyStrict, options>>
held == <<results>>
packaging == <<packageJson, npm, script>>
consumer == <<bm, wrap, packaging, gopath>>

\* What the summary of the CLI reads of a BuildResult to decide the exit code.
Brief(r) == [platform |-> r.platform, success |-> r.success]

\* An error leaves buildForPlatform (or the CLI's try block) by a throw.
Throw(e) == thrown' = e /\ pc' = "thrown"

(***************************************************************************)
(* CLI entry points.                                                       *)
(***************************************************************************)
\* `build` of the single-platform CLI: Platform.current(), the output
\* directory from its name, then buildForCurrentPlatform.
CliBuild(hasVersion, strict, stale) ==
    /\ pc = "start"
    /\ mode' = "current"
    /\ copyStrict' = strict
    /\ options' = [version |-> hasVersion, source |-> FALSE]
    /\ srcDir' = stale
    /\ LET c == PlatformCurrent(host) IN
       IF c.threw
       THEN Throw(c.error) /\ UNCHANGED cur
       ELSE IF GetName(c.value).threw
            THEN Throw(GetName(c.value).error) /\ UNCHANGED cur
            ELSE cur' = c.value /\ pc' = "resolveVersion" /\ UNCHANGED thrown
    /\ UNCHANGED <<host, processEnv, idx, version, fetches, dlLog, buildLocals, held, built,
                   outBin, missing, exitCode, consumer>>

\* `build --all` of the multi-platform CLI: buildForAllPlatforms starts its
\* loop.  This caller belongs to the revision whose BaseBuilder has the
\* lenient copyBinariesToOutput.
CliBuildAll(hasVersion, hasSource, stale) ==
    /\ pc = "start"
    /\ mode' = "all"
    /\ copyStrict' = FALSE
    /\ options' = [version |-> hasVersion, source |-> hasSource]
    /\ srcDir' = IF hasSource THEN {"given"} ELSE stale
    /\ idx' = 1
    /\ cur' = GetAllSupportedPlatforms[1]
    /\ pc' = "resolveVersion"
    /\ UNCHANGED <<host, processEnv, version, fetches, dlLog, thrown, buildLocals, held, built,
                   outBin, missing, exitCode, consumer>>

(***************************************************************************)
(* buildForPlatform.                                                       *)
(***************************************************************************)
\* What the release feed (GET .../releases/latest) can answer: no answer at
\* all, a non-OK status, a body that is not JSON, and a JSON body with or
\* without the tag_name field.
FeedOutcomes ==
    { [kind |-> "unreachable"],
      [kind |-> "status", statusText |-> "Forbidden"],
      [kind |-> "notJson"],
      [kind |-> "json", body |-> [tag_name |-> "7.67.0"]],
      [kind |-> "json", body |-> [message |-> "Not Found"]] }

\* DatadogAgentDownloader.getLatestVersion: one fetch; a rejected fetch and
\* a rejected response.json() propagate, a non-OK status throws, and
\* otherwise data.tag_name is returned, whatever it is.
GetLatestVersion(feed) ==
    CASE feed.kind = "unreachable" ->
           [threw |-> TRUE, requests |-> 1,
            error |-> [name |-> "FetchError",
                       message |-> "request to https://api.github.com/repos/DataDog/datadog-agent/releases/latest failed, reason: getaddrinfo ENOTFOUND api.github.com"]]
      [] feed.kind = "status" ->
           [threw |-> TRUE, requests |-> 1,
            error |-> [name |-> "Error",
                       message |-> "Failed to fetch latest version: " \o feed.statusText]]
      [] feed.kind = "notJson" ->
           [threw |-> TRUE, requests |-> 1,
            error |-> [name |-> "FetchError",
                       message |-> "invalid json response body at https://api.github.com/repos/DataDog/datadog-agent/releases/latest reason: Unexpected token < in JSON at position 0"]]
      [] OTHER ->
           [threw |-> FALSE, requests |-> 1,
            value |-> IF "tag_name" \in DOMAIN feed.body
                      THEN feed.body.tag_name ELSE Undefined]

\* validatePlatform (multi-platform revision), then
\* options.version || await getLatestVersion(): the release feed is asked
\* only when no version was given.
ResolveVersion(feed) ==
    /\ pc = "resolveVersion"
    /\ IF mode = "all" /\ ValidatePlatform(cur).threw
       THEN Throw(ValidatePlatform(cur).error) /\ UNCHANGED <<version, fetches>>
       ELSE IF options.version
       THEN /\ version' = "7.66.1"
            /\ pc' = IF options.source THEN "checkDeps" ELSE "dlPrepare"
            /\ UNCHANGED <<thrown, fetches>>
       ELSE LET r == GetLatestVersion(feed) IN
            /\ fetches' = fetches + r.requests
            /\ IF r.threw
               THEN Throw(r.error) /\ UNCHANGED version
               ELSE /\ version' = r.value
                    /\ pc' = IF options.source THEN "checkDeps" ELSE "dlPrepare"
                    /\ UNCHANGED thrown
    /\ UNCHANGED <<envVars, idx, cur, srcDir, dlLog, buildLocals, held,
                   built, outBin, missing, exitCode, consumer>>

\* downloadSource, first part: mkdir of the parent, rm -rf of the target.
DownloadPrepare(ok) ==
    /\ pc = "dlPrepare"
    /\ dlLog' = <<>>
    /\ IF ok
       THEN srcDir' = {} /\ built' = FALSE /\ pc' = "dlClone" /\ UNCHANGED thrown
       ELSE /\ Throw([name |-> "Error", message |-> "EACCES: permission denied, rm"])
            /\ UNCHANGED <<srcDir, built>>
    /\ UNCHANGED <<envVars, idx, cur, version, fetches, buildLocals, held, outBin,
                   missing, exitCode, consumer>>

\* downloadSource: git clone --depth 1 --branch <version>.
GitClone(ok) ==
    /\ pc = "dlClone"
    /\ ok => version # Undefined
    /\ dlLog' = Append(dlLog, [step |-> "clone", ok |-> ok])
    /\ srcDir' = IF ok THEN {"clone"} ELSE srcDir
    /\ pc' = IF ok THEN "dlProbe" ELSE "dlFetch"
    /\ UNCHANGED <<envVars, idx, cur, version, fetches, thrown, buildLocals, held,
                   built, outBin, missing, exitCode, consumer>>

\* downloadSource: git describe --tags --always, inside the same try block.
GitDescribe(ok) ==
    /\ pc = "dlProbe"
    /\ dlLog' = Append(dlLog, [step |-> "probe", ok |-> ok])
    /\ pc' = IF ok THEN "dlDone" ELSE "dlFetch"
    /\ UNCHANGED <<envVars, idx, cur, version, fetches, srcDir, thrown, buildLocals,
                   held, built, outBin, missing, exitCode, consumer>>

\* The archive fetch with a fault: a failed fetch is logged and
\* downloadSource returns as if the source were there.
FetchArchiveReturnsOnFailure(ok) ==
    /\ pc = "dlFetch"
    /\ ok => version # Undefined
    /\ dlLog' = Append(dlLog, [step |-> "archive", ok |-> ok])
    /\ pc' = IF ok THEN "dlExtract" ELSE "dlDone"
    /\ UNCHANGED <<envVars, idx, cur, version, fetches, srcDir, thrown, buildLocals,
                   held, built, outBin, missing, exitCode, consumer>>

\* downloadSource, catch block: fetch of the tag's source archive.
FetchArchive(ok) ==
    /\ pc = "dlFetch"
    /\ ok => version # Undefined
    /\ dlLog' = Append(dlLog, [step |-> "archive", ok |-> ok])
    /\ IF ok
       THEN pc' = "dlExtract" /\ UNCHANGED thrown
       ELSE Throw([name |-> "Error", message |-> "Failed to download source: Not Found"])
    /\ UNCHANGED <<envVars, idx, cur, version, fetches, srcDir, buildLocals, held,
                   built, outBin, missing, exitCode, consumer>>

\* downloadSource, catch block: write the archive, mkdir -p the target,
\* extract into it, unlink the archive, then git init + tag (errors ignored).
ExtractArchive(ok) ==
    /\ pc = "dlExtract"
    /\ dlLog' = Append(dlLog, [step |-> "extract", ok |-> ok])
    /\ IF ok
       THEN srcDir' = srcDir \cup {"archive"} /\ pc' = "dlDone" /\ UNCHANGED thrown
       ELSE /\ Throw([name |-> "Error", message |-> "TAR_BAD_ARCHIVE"])
            /\ UNCHANGED srcDir
    /\ UNCHANGED <<envVars, idx, cur, version, fetches, buildLocals, held, built,
                   outBin, missing, exitCode, consumer>>

\* downloadSource returns the path; buildForPlatform sets up the GOPATH
\* symlink (single-platform revision) before the dependency check.
SetupGoPathStructureAlwaysLinks(ok) ==
    /\ pc = "dlDone"
    /\ IF mode # "current"
       THEN pc' = "checkDeps" /\ UNCHANGED <<thrown, gopath>>
       ELSE IF gopath.link
            THEN /\ Throw([name |-> "Error", message |-> "EEXIST: file already exists, symlink"])
                 /\ UNCHANGED gopath
            ELSE IF ok
                 THEN /\ gopath' = [gopath EXCEPT !.link = TRUE, !.symlinks = @ + 1]
                      /\ pc' = "checkDeps" /\ UNCHANGED thrown
                 ELSE /\ Throw([name |-> "Error", message |-> "EPERM: operation not permitted, symlink"])
                      /\ UNCHANGED gopath
    /\ UNCHANGED <<envVars, idx, cur, version, fetches, srcDir, dlLog, buildLocals,
                   held, built, outBin, missing, exitCode, bm, wrap, packaging>>

\* stat(symlinkPath) follows the link: it succeeds when the link is there and
\* the source directory it names exists.
StatSymlinkPath(g, dir) == g.link /\ dir # {}

\* setupGoPathStructure (single-platform revision; the multi-platform one has
\* no such step): mkdir -p of <goPath>/src/github.com/DataDog, then stat of
\* the link; only when stat throws is symlink() called, and its error is
\* rethrown.  `ok`: whether the file system lets symlink() create a link.
SetupGoPathStructure(ok) ==
    /\ pc = "dlDone"
    /\ IF mode # "current" \/ StatSymlinkPath(gopath, srcDir)
       THEN pc' = "checkDeps" /\ UNCHANGED <<thrown, gopath>>
       ELSE IF gopath.link
            THEN /\ Throw([name |-> "Error", message |-> "EEXIST: file already exists, symlink"])
                 /\ UNCHANGED gopath
            ELSE IF ok
                 THEN /\ gopath' = [gopath EXCEPT !.link = TRUE, !.symlinks = @ + 1]
                      /\ pc' = "checkDeps" /\ UNCHANGED thrown
                 ELSE /\ Throw([name |-> "Error", message |-> "EPERM: operation not permitted, symlink"])
                      /\ UNCHANGED gopath
    /\ UNCHANGED <<envVars, idx, cur, version, fetches, srcDir, dlLog, buildLocals,
                   held, built, outBin, missing, exitCode, bm, wrap, packaging>>

\* await checkBuildDependencies(platform), then createBuilder(config).
CheckDeps(present) ==
    /\ pc = "checkDeps"
    /\ LET r == CheckBuildDependencies(cur, present) IN
       /\ missing' = r.missing
       /\ IF r.threw
          THEN Throw([name |-> "Error", message |-> "Missing build dependencies"])
          ELSE pc' = "createBuilder" /\ UNCHANGED thrown
    /\ UNCHANGED <<envVars, idx, cur, version, fetches, srcDir, dlLog, buildLocals,
                   held, built, outBin, exitCode, consumer>>

\* createBuilder(config) and the call of builder.build().
StartBuilder ==
    /\ pc = "createBuilder"
    /\ missing' = <<>>
    /\ IF CreateBuilder(cur).threw
       THEN Throw(CreateBuilder(cur).error)
       ELSE pc' = "ensureOutputDirectory" /\ UNCHANGED thrown
    /\ UNCHANGED <<envVars, idx, cur, version, fetches, srcDir, dlLog, buildLocals,
                   held, built, outBin, exitCode, consumer>>

(***************************************************************************)
(* Platform builders: build() of LinuxBuilder, WindowsBuilder and the      *)
(* macOS builder, step by step.                                            *)
(***************************************************************************)
Builder == CreateBuilder(cur).value

RECURSIVE FirstNotIn(_, _)
FirstNotIn(cmds, done) ==
    IF cmds = <<>> THEN ""
    ELSE IF \E i \in DOMAIN done : done[i] = Head(cmds)
         THEN FirstNotIn(Tail(cmds), done)
         ELSE Head(cmds)

\* The command build() runs next on the native path.
NextCommand == FirstNotIn(NativeCommands(Builder), steps)
IsLastCommand(c) == c = NativeCommands(Builder)[Len(NativeCommands(Builder))]
BuildsMainBinary(c) ==
    c \in {"dda --no-interactive inv agent.build --build-exclude=systemd",
           "go build ./cmd/agent"}

\* A step of build() throws: control goes to the catch block of its try.
StepFails(step, e, catch) ==
    /\ failed' = [step |-> step, error |-> [name |-> e.name, message |-> e.message]]
    /\ pc' = catch

\* await this.ensureOutputDirectory(), then the choice of the path.
EnsureOutputDirectory(ok) ==
    /\ pc = "ensureOutputDirectory"
    /\ steps' = <<"ensureOutputDirectory">>
    /\ IF ~ok
       THEN StepFails("ensureOutputDirectory",
                      [name |-> "Error", message |-> "EACCES: permission denied, mkdir"],
                      "buildCatch")
       ELSE /\ UNCHANGED failed
            /\ pc' = IF IsMacBuilder(Builder) THEN "checkXcodeTools"
                     ELSE IF host.platform # NativeHost(Builder)
                          THEN "isDockerAvailable" ELSE "commands"
    /\ UNCHANGED <<envVars, idx, cur, version, fetches, srcDir, dlLog, thrown, result,
                   nReturned, held, built, outBin, lastExec, missing, exitCode, consumer>>

\* hostPlatform !== target && await this.isDockerAvailable(): `docker --version`
\* through executeCommand; a throw means "not available".
IsDockerAvailable(o, gw) ==
    /\ pc = "isDockerAvailable"
    /\ LET r == ExecuteCommand("docker --version", o, gw) IN
       /\ pc' = IF r.threw THEN "commands" ELSE "dockerBuild"
    /\ steps' = Append(steps, "isDockerAvailable")
    /\ UNCHANGED <<envVars, idx, cur, version, fetches, srcDir, dlLog, thrown, failed,
                   result, nReturned, held, built, outBin, lastExec, missing,
                   exitCode, consumer>>

\* checkXcodeTools with a fault: the command's own error is passed on, the
\* remediation hint is lost.
CheckXcodeToolsRethrows(o, gw) ==
    /\ pc = "checkXcodeTools"
    /\ steps' = Append(steps, "checkXcodeTools")
    /\ LET r == ExecuteCommand("xcode-select -p", o, gw) IN
       /\ IF r.threw
          THEN StepFails("checkXcodeTools", r.error, "buildCatch")
          ELSE pc' = "commands" /\ UNCHANGED failed
    /\ UNCHANGED <<envVars, idx, cur, version, fetches, srcDir, dlLog, thrown, result,
                   nReturned, held, built, outBin, lastExec, missing, exitCode, consumer>>

\* checkXcodeTools: `xcode-select -p`; its failure is replaced by an error
\* that carries the remediation hint.
CheckXcodeTools(o, gw) ==
    /\ pc = "checkXcodeTools"
    /\ steps' = Append(steps, "checkXcodeTools")
    /\ LET r == ExecuteCommand("xcode-select -p", o, gw) IN
       /\ IF r.threw
          THEN StepFails("checkXcodeTools",
                         [name |-> "Error",
                          message |-> "Xcode command line tools not found. Run: xcode-select --install"],
                         "buildCatch")
          ELSE pc' = "commands" /\ UNCHANGED failed
    /\ UNCHANGED <<envVars, idx, cur, version, fetches, srcDir, dlLog, thrown, result,
                   nReturned, held, built, outBin, lastExec, missing, exitCode, consumer>>

\* One command of the native build procedure, through executeCommand.
\* `produces`: whether the build tool left the main binary in the source tree.
RunCommand(o, gw, produces) ==
    /\ pc = "commands"
    /\ LET c == NextCommand
           r == ExecuteCommand(c, o, gw) IN
       /\ steps' = Append(steps, c)
       /\ IF r.threw /\ ~IsProbe(c)
          THEN StepFails(c, r.error, "buildCatch") /\ UNCHANGED built
          ELSE /\ UNCHANGED failed
               /\ built' = IF BuildsMainBinary(c) THEN (built \/ produces) ELSE built
               /\ pc' = IF IsLastCommand(c) THEN "copyBinariesToOutput" ELSE "commands"
    /\ UNCHANGED <<envVars, idx, cur, version, fetches, srcDir, dlLog, thrown, result,
                   nReturned, held, outBin, lastExec, missing, exitCode, consumer>>

\* copyBinariesToOutput, both revisions: mkdir -p of the output directory
\* throws; a failed copyFile of the main binary is rethrown by the strict
\* revision and only logged at debug level by the lenient one.
CopyOutcome(strict, mkdirOk, copied) ==
    IF ~mkdirOk THEN "throw"
    ELSE IF copied THEN "return"
    ELSE IF strict THEN "throw" ELSE "return"

CopyBinariesToOutput(mkdirOk, ioOk) ==
    /\ pc = "copyBinariesToOutput"
    /\ steps' = Append(steps, "copyBinariesToOutput")
    /\ LET copied == mkdirOk /\ built /\ ioOk
           e == IF ~mkdirOk
                THEN [name |-> "Error", message |-> "EACCES: permission denied, mkdir"]
                ELSE [name |-> "Error", message |-> "ENOENT: no such file or directory, copyfile"]
       IN
       /\ outBin' = (outBin \/ copied)
       /\ failed' = IF copied THEN failed
                    ELSE [step |-> "copyBinariesToOutput", error |-> e]
       /\ pc' = IF CopyOutcome(copyStrict, mkdirOk, copied) = "throw"
                THEN "buildCatch" ELSE "buildSuccess"
    /\ UNCHANGED <<envVars, idx, cur, version, fetches, srcDir, dlLog, thrown, result,
                   nReturned, held, built, lastExec, missing, exitCode, consumer>>

\* return { success: true, platform, outputPath, duration } of build().
SuccessResult ==
    [success |-> TRUE, platform |-> cur,
     outputPath |-> GetAbsoluteOutputPath(OutputDir(cur, mode),
                                          GetOutputBinaryName(cur, copyStrict)),
     error |-> Undefined, returned |-> TRUE]

\* The failure result with a fault: the output path is reported although the
\* build failed.
FailureResultWithPath(e) ==
    [success |-> FALSE, platform |-> cur,
     outputPath |-> GetAbsoluteOutputPath(OutputDir(cur, mode),
                                          GetOutputBinaryName(cur, copyStrict)),
     error |-> e.message, returned |-> TRUE]

\* return { success: false, platform, error: error.message, duration }.
FailureResult(e) ==
    [success |-> FALSE, platform |-> cur, outputPath |-> Undefined,
     error |-> e.message, returned |-> TRUE]

BuildSuccess ==
    /\ pc = "buildSuccess"
    /\ result' = SuccessResult
    /\ nReturned' = nReturned + 1
    /\ pc' = "returned"
    /\ UNCHANGED <<envVars, idx, cur, version, fetches, srcDir, dlLog, thrown, steps,
                   failed, held, built, outBin, lastExec, missing, exitCode, consumer>>

\* The catch block with a fault: the error is thrown on instead of being
\* turned into a result.
BuildCatchRethrows ==
    /\ pc = "buildCatch"
    /\ Throw(failed.error)
    /\ UNCHANGED <<envVars, idx, cur, version, fetches, srcDir, dlLog, steps, result,
                   nReturned, failed, held, built, outBin, lastExec, missing, exitCode,
                   consumer>>

\* The catch block of build().
BuildCatch ==
    /\ pc = "buildCatch"
    /\ result' = FailureResult(failed.error)
    /\ nReturned' = nReturned + 1
    /\ pc' = "returned"
    /\ UNCHANGED <<envVars, idx, cur, version, fetches, srcDir, dlLog, thrown, steps,
                   failed, held, built, outBin, lastExec, missing, exitCode, consumer>>

\* copyPlatformBinary of the packaging script: the path it reads the
\* platform's binary from, <project root>/build/<name>/bin/<binary name>.
CopyPlatformBinaryPath(p) ==
    "/cwd/build/" \o GetName(p).value \o "/bin/" \o GetBinaryName(p).value

(***************************************************************************)
(* Containerized cross-build (BaseBuilder.buildWithDocker).                *)
(***************************************************************************)
\* createDockerBuildScript: a script for Linux and Windows; the macOS
\* builder's override throws.
CreateDockerBuildScript(builder) ==
    IF IsMacBuilder(builder)
    THEN [threw |-> TRUE,
          error |-> [name |-> "Error",
                     message |-> "Docker builds not supported for Darwin platform"]]
    ELSE [threw |-> FALSE, value |-> "#!/bin/bash"]

\* docker build -f <Dockerfile> -t datadog-agent-builder:<os> .
DockerBuildImage(o, gw) ==
    /\ pc = "dockerBuild"
    /\ steps' = Append(steps, "docker build")
    /\ LET r == ExecuteCommand("docker build", o, gw) IN
       /\ IF r.threw
          THEN StepFails("docker build", r.error, "dockerCatch")
          ELSE pc' = "dockerScript" /\ UNCHANGED failed
    /\ UNCHANGED <<envVars, idx, cur, version, fetches, srcDir, dlLog, thrown, result,
                   nReturned, held, built, outBin, lastExec, missing, exitCode, consumer>>

\* createDockerBuildScript() and writeBuildScript(path, script).
WriteBuildScript(ok) ==
    /\ pc = "dockerScript"
    /\ steps' = Append(steps, "writeBuildScript")
    /\ LET s == CreateDockerBuildScript(Builder) IN
       IF s.threw
       THEN StepFails("writeBuildScript", s.error, "dockerCatch")
       ELSE IF ~ok
            THEN StepFails("writeBuildScript",
                           [name |-> "Error", message |-> "ENOENT: no such file or directory, open"],
                           "dockerCatch")
            ELSE pc' = "dockerRun" /\ UNCHANGED failed
    /\ UNCHANGED <<envVars, idx, cur, version, fetches, srcDir, dlLog, thrown, result,
                   nReturned, held, built, outBin, lastExec, missing, exitCode, consumer>>

\* docker run ... bash <script>.  `binaryOut`: whether the script put the
\* main binary into the mounted output directory.  The script's last command
\* is `cp build/* /workspace/output/` under `set -e`: it can copy the first
\* files and fail on a later one, and the container can be stopped while it
\* copies, so a failed run may have written the binary too.  The code does
\* not look at the directory and has no clean-up.
DockerRun(o, gw, binaryOut) ==
    /\ pc = "dockerRun"
    /\ steps' = Append(steps, "docker run")
    /\ outBin' = (outBin \/ binaryOut)
    /\ LET r == ExecuteCommand("docker run", o, gw) IN
       /\ IF r.threw
          THEN StepFails("docker run", r.error, "dockerCatch")
          ELSE pc' = "dockerSuccess" /\ UNCHANGED failed
    /\ UNCHANGED <<envVars, idx, cur, version, fetches, srcDir, dlLog, thrown, result,
                   nReturned, held, built, lastExec, missing, exitCode, consumer>>

\* return { success: true, ... } of buildWithDocker.
DockerSuccess ==
    /\ pc = "dockerSuccess"
    /\ result' = SuccessResult
    /\ nReturned' = nReturned + 1
    /\ pc' = "returned"
    /\ UNCHANGED <<envVars, idx, cur, version, fetches, srcDir, dlLog, thrown, steps,
                   failed, held, built, outBin, lastExec, missing, exitCode, consumer>>

\* The catch block of buildWithDocker.
DockerCatch ==
    /\ pc = "dockerCatch"
    /\ result' = FailureResult(failed.error)
    /\ nReturned' = nReturned + 1
    /\ pc' = "returned"
    /\ UNCHANGED <<envVars, idx, cur, version, fetches, srcDir, dlLog, thrown, steps,
                   failed, held, built, outBin, lastExec, missing, exitCode, consumer>>

(***************************************************************************)
(* Callers of buildForPlatform.                                            *)
(***************************************************************************)
\* Number of platforms buildForAllPlatforms walks in the model.
NumPlatforms ==
    IF MaxPlatforms < Len(GetAllSupportedPlatforms) THEN MaxPlatforms
    ELSE Len(GetAllSupportedPlatforms)

\* buildForAllPlatforms: results.push(result).
CollectResult ==
    /\ pc = "returned"
    /\ mode = "all"
    /\ results' = Append(results, Brief(result))
    /\ pc' = "loopEnd"
    /\ UNCHANGED <<envVars, idx, cur, version, fetches, srcDir, dlLog, thrown,
                   buildLocals, built, outBin, missing, exitCode, consumer>>

\* The catch block's result with a fault: the error is dropped and the
\* platform is reported as built.
CaughtResultSilent(p, e) ==
    [success |-> TRUE, platform |-> p, outputPath |-> Undefined,
     error |-> Undefined, returned |-> FALSE]

\* { success: false, platform, error: error.message, duration: 0 }: the
\* BuildResult the catch block makes of a thrown error (not returned by build()).
CaughtResult(p, e) ==
    [success |-> FALSE, platform |-> p, outputPath |-> Undefined,
     error |-> e.message, returned |-> FALSE]

\* buildForAllPlatforms: the catch around buildForPlatform turns a thrown
\* error into a failed BuildResult and pushes it.
CatchInLoop ==
    /\ pc = "thrown"
    /\ mode = "all"
    /\ result' = CaughtResult(cur, thrown)
    /\ results' = Append(results, Brief(result'))
    /\ pc' = "loopEnd"
    /\ UNCHANGED <<envVars, idx, cur, version, fetches, srcDir, dlLog, thrown, steps,
                   failed, nReturned, lastExec, built, outBin, missing, exitCode, consumer>>

\* The loop with a fault: a failed platform ends the loop (the remaining
\* platforms are not built).
LoopNextAbortOnFailure ==
    /\ pc = "loopEnd"
    /\ idx' = idx + 1
    /\ IF idx < NumPlatforms /\ result.success
       THEN cur' = GetAllSupportedPlatforms[idx + 1] /\ pc' = "resolveVersion"
       ELSE cur' = NoPlatform /\ pc' = "summary"
    /\ version' = ""
    /\ fetches' = 0
    /\ dlLog' = <<>>
    /\ thrown' = NoError
    /\ steps' = <<>>
    /\ failed' = [step |-> "none"]
    /\ result' = NoResult
    /\ nReturned' = 0
    /\ outBin' = FALSE
    /\ missing' = <<>>
    /\ UNCHANGED <<envVars, srcDir, results, built, lastExec, exitCode, consumer>>

\* The loop of buildForAllPlatforms goes to the next platform, or returns
\* the results; the locals of the finished iteration are gone.
LoopNext ==
    /\ pc = "loopEnd"
    /\ idx' = idx + 1
    /\ IF idx < NumPlatforms
       THEN cur' = GetAllSupportedPlatforms[idx + 1] /\ pc' = "resolveVersion"
       ELSE cur' = NoPlatform /\ pc' = "summary"
    /\ version' = ""
    /\ fetches' = 0
    /\ dlLog' = <<>>
    /\ thrown' = NoError
    /\ steps' = <<>>
    /\ failed' = [step |-> "none"]
    /\ result' = NoResult
    /\ nReturned' = 0
    /\ outBin' = FALSE
    /\ missing' = <<>>
    /\ UNCHANGED <<envVars, srcDir, results, built, lastExec, exitCode, consumer>>

Failures(rs) == { i \in DOMAIN rs : ~rs[i].success }

\* Multi-platform CLI after the builds: the cross-compilation warnings
\* (detectPlatform), the summary, process.exit(failed.length > 0 ? 1 : 0);
\* a throw lands in the catch block, which exits with 1.
MultiSummary ==
    /\ pc = "summary"
    /\ mode = "all"
    /\ IF DetectPlatform(host).threw
       THEN thrown' = DetectPlatform(host).error /\ exitCode' = 1
       ELSE /\ exitCode' = IF Failures(results) # {} THEN 1 ELSE 0
            /\ UNCHANGED thrown
    /\ pc' = "done"
    /\ UNCHANGED <<envVars, idx, cur, version, fetches, srcDir, dlLog, buildLocals,
                   held, built, outBin, missing, consumer>>

\* Single-platform CLI after buildForCurrentPlatform returned:
\* process.exit(0) on success, process.exit(1) otherwise.
CliSummary ==
    /\ pc = "returned"
    /\ mode = "current"
    /\ results' = <<Brief(result)>>
    /\ exitCode' = IF result.success THEN 0 ELSE 1
    /\ pc' = "done"
    /\ UNCHANGED <<envVars, idx, cur, version, fetches, srcDir, dlLog, thrown,
                   buildLocals, built, outBin, missing, consumer>>

\* Single-platform CLI, catch block: process.exit(1).
CliCatch ==
    /\ pc = "thrown"
    /\ mode = "current"
    /\ exitCode' = 1
    /\ pc' = "done"
    /\ UNCHANGED <<envVars, idx, cur, version, fetches, srcDir, dlLog, thrown,
                   buildLocals, held, built, outBin, missing, consumer>>

(***************************************************************************)
(* BinaryManager.ensureBinary, in the two revisions of the class: the one  *)
(* with the optional-dependency lookup and the download fallback           *)
(* ("fallback", platform records) and the one that only looks into the     *)
(* build directory ("local", class Platform).                              *)
(***************************************************************************)
\* What ensureBinary meets outside the process.
\*   feedOk   : the release feed answers with a tag
\*   optional : the optional platform package resolves and holds a regular file
\*   entry    : what is at the expected path
\*   dl       : whether the download of the release archive succeeds
ManagerEnvs ==
    [feedOk : BOOLEAN, optional : BOOLEAN, entry : {"file", "directory", "absent"},
     dl : BOOLEAN]

\* binaryExists: fs.stat(path).isFile(), false when stat throws.
BinaryExists(entry) == entry = "file"

\* version || await this.getLatestVersion().
TargetVersion(given, feedOk) ==
    IF given # "" THEN [threw |-> FALSE, value |-> given]
    ELSE IF feedOk THEN [threw |-> FALSE, value |-> "7.67.0"]
    ELSE [threw |-> TRUE,
          error |-> [name |-> "Error",
                     message |-> "Failed to fetch latest version: Forbidden"]]

\* getBinaryFileName of the "fallback" revision.
GetBinaryFileName(p) == IF p.os = "windows" THEN "datadog-agent.exe" ELSE "datadog-agent"

\* getBinaryPath of the "fallback" revision: binDir/<version>-<os>-<arch>/<file>.
GetBinaryPathInBin(p, v) ==
    "bin/" \o v \o "-" \o GetPlatformString(p) \o "/" \o GetBinaryFileName(p)

\* getBinaryPath of the "local" revision: buildDir/<version>-<name>/<binary name>.
GetBinaryPathInBuild(p, v) ==
    "build/" \o v \o "-" \o GetName(p).value \o "/" \o GetBinaryName(p).value

\* downloadBinary: one request for the release archive; a refused request throws.
DownloadBinary(p, v, env) ==
    IF env.dl
    THEN [threw |-> FALSE, value |-> GetBinaryPathInBin(p, v),
          path |-> GetBinaryPathInBin(p, v), downloads |-> 1]
    ELSE [threw |-> TRUE,
          error |-> [name |-> "Error", message |-> "Failed to download binary: Not Found"],
          path |-> GetBinaryPathInBin(p, v), downloads |-> 1]

\* ensureBinary of the "fallback" revision.
EnsureBinaryFallback(h, given, env) ==
    LET d == DetectPlatform(h) IN
    IF d.threw THEN [threw |-> TRUE, error |-> d.error, path |-> "", downloads |-> 0]
    ELSE IF env.optional
    THEN [threw |-> FALSE,
          value |-> "node_modules/@datadog-agent-binary/" \o GetPlatformString(d.value),
          path |-> "", downloads |-> 0]
    ELSE LET v == TargetVersion(given, env.feedOk) IN
         IF v.threw THEN [threw |-> TRUE, error |-> v.error, path |-> "", downloads |-> 0]
         ELSE IF BinaryExists(env.entry)
              THEN [threw |-> FALSE, value |-> GetBinaryPathInBin(d.value, v.value),
                    path |-> GetBinaryPathInBin(d.value, v.value), downloads |-> 0]
              ELSE DownloadBinary(d.value, v.value, env)

\* ensureBinary of the "local" revision.
EnsureBinaryLocal(h, given, env) ==
    LET c == PlatformCurrent(h) IN
    IF c.threw THEN [threw |-> TRUE, error |-> c.error, path |-> "", downloads |-> 0]
    ELSE LET v == TargetVersion(given, env.feedOk) IN
         IF v.threw THEN [threw |-> TRUE, error |-> v.error, path |-> "", downloads |-> 0]
         ELSE IF GetBinaryName(c.value).threw
         THEN [threw |-> TRUE, error |-> GetBinaryName(c.value).error,
               path |-> "", downloads |-> 0]
         ELSE IF BinaryExists(env.entry)
              THEN [threw |-> FALSE, value |-> GetBinaryPathInBuild(c.value, v.value),
                    path |-> GetBinaryPathInBuild(c.value, v.value), downloads |-> 0]
              ELSE [threw |-> TRUE,
                    error |-> [name |-> "Error",
                               message |-> "Binary not found for " \o GetName(c.value).value],
                    path |-> GetBinaryPathInBuild(c.value, v.value), downloads |-> 0]

EnsureBinary(rev, h, given, env) ==
    IF rev = "fallback" THEN EnsureBinaryFallback(h, given, env)
    ELSE EnsureBinaryLocal(h, given, env)

ManagerRevisions == {"fallback", "local"}
GivenVersions == {"", "9.9.9"}

\* The `install` command: ensureBinary(options.version); the catch block
\* exits with 1, a normal return lets the process end with 0.
CliInstall(rev, given, env) ==
    /\ pc = "start"
    /\ mode' = "install"
    /\ LET r == EnsureBinary(rev, host, given, env) IN
       /\ bm' = [rev |-> rev, given |-> given, env |-> env, ret |-> r]
       /\ thrown' = IF r.threw THEN r.error ELSE thrown
       /\ exitCode' = IF r.threw THEN 1 ELSE 0
    /\ pc' = "done"
    /\ UNCHANGED <<host, processEnv, copyStrict, options, idx, cur, version, fetches, srcDir, dlLog,
                   buildLocals, held, built, outBin, missing, wrap, packaging, gopath>>

(***************************************************************************)
(* Runtime wrapper (bin/datadog-agent).                                    *)
(***************************************************************************)
\* Command lines of the wrapper: what follows `node <script>` in process.argv.
UserArgs == { <<>>, <<"status">>, <<"run", "--cfgpath=/etc/datadog">> }

\* How the spawned child ends, as the wrapper's handlers see it: the "exit"
\* event with a code, the "exit" event of a child killed by a signal (the
\* code is null), or the "error" event of a child that could not be started.
ChildEvents ==
    [kind : {"exit"}, code : ExitCodes]
    \cup { [kind |-> "signal", signal |-> "SIGTERM"],
           [kind |-> "error", errno |-> "EACCES"] }

\* process.argv.slice(2).
Slice2(argv) == SubSeq(argv, 3, Len(argv))

\* child.on("exit", (code) => process.exit(code || 0)).
ExitHandler(ev) ==
    IF ev.kind = "signal" THEN 0
    ELSE IF ev.code = 0 THEN 0 ELSE ev.code

\* main() of the wrapper up to the spawn: ensureBinary(), then
\* spawn(binaryPath, process.argv.slice(2), { stdio: "inherit" }).
WrapperMain(rev, args, env) ==
    /\ pc = "start"
    /\ mode' = "wrapper"
    /\ LET r == EnsureBinary(rev, host, "", env)
           argv == <<"node", "bin/datadog-agent">> \o args IN
       /\ bm' = [rev |-> rev, given |-> "", env |-> env, ret |-> r]
       /\ IF r.threw
          THEN /\ thrown' = r.error
               /\ exitCode' = 1
               /\ pc' = "done"
               /\ wrap' = [argv |-> argv]
          ELSE /\ wrap' = [argv |-> argv, file |-> r.value, args |-> Slice2(argv)]
               /\ pc' = "child"
               /\ UNCHANGED <<thrown, exitCode>>
    /\ UNCHANGED <<host, processEnv, copyStrict, options, idx, cur, version, fetches, srcDir, dlLog,
                   buildLocals, held, built, outBin, missing, packaging, gopath>>

\* The child ends: the "exit" handler or the "error" handler runs.
ChildEnds(ev) ==
    /\ pc = "child"
    /\ wrap' = [argv |-> wrap.argv, file |-> wrap.file, args |-> wrap.args, ended |-> ev]
    /\ exitCode' = IF ev.kind = "error" THEN 1 ELSE ExitHandler(ev)
    /\ pc' = "done"
    /\ UNCHANGED <<envVars, idx, cur, version, fetches, srcDir, dlLog, thrown, buildLocals,
                   held, built, outBin, missing, bm, packaging, gopath>>

(***************************************************************************)
(* Specification.                                                          *)
(***************************************************************************)
StaleDirs == { {}, {"stale"} }
FileOutcomes == BOOLEAN

Next ==
    \/ \E v \in BOOLEAN, st \in BOOLEAN, sd \in StaleDirs : CliBuild(v, st, sd)
    \/ \E v \in BOOLEAN, src \in BOOLEAN, sd \in StaleDirs : CliBuildAll(v, src, sd)
    \/ \E feed \in FeedOutcomes : ResolveVersion(feed)
    \/ \E ok \in FileOutcomes : DownloadPrepare(ok)
    \/ \E ok \in BOOLEAN : GitClone(ok)
    \/ \E ok \in BOOLEAN : GitDescribe(ok)
    \/ \E ok \in BOOLEAN : FetchArchive(ok)
    \/ \E ok \in FileOutcomes : ExtractArchive(ok)
    \/ \E ok \in FileOutcomes : SetupGoPathStructure(ok)
    \/ \E present \in SUBSET AllTools : CheckDeps(present)
    \/ StartBuilder
    \/ \E ok \in FileOutcomes : EnsureOutputDirectory(ok)
    \/ \E o \in PipelineOutcomes, gw \in GoWorkStates : IsDockerAvailable(o, gw)
    \/ \E o \in PipelineOutcomes, gw \in GoWorkStates : CheckXcodeTools(o, gw)
    \/ \E o \in PipelineOutcomes, gw \in GoWorkStates, pr \in BOOLEAN : RunCommand(o, gw, pr)
    \/ \E mk \in FileOutcomes, io \in FileOutcomes : CopyBinariesToOutput(mk, io)
    \/ BuildSuccess
    \/ BuildCatch
    \/ \E o \in PipelineOutcomes, gw \in GoWorkStates : DockerBuildImage(o, gw)
    \/ \E ok \in FileOutcomes : WriteBuildScript(ok)
    \/ \E o \in PipelineOutcomes, gw \in GoWorkStates, b \in BOOLEAN : DockerRun(o, gw, b)
    \/ DockerSuccess
    \/ DockerCatch
    \/ CollectResult
    \/ CatchInLoop
    \/ LoopNext
    \/ MultiSummary
    \/ CliSummary
    \/ CliCatch
    \/ \E rev \in ManagerRevisions, g \in GivenVersions, env \in ManagerEnvs :
          CliInstall(rev, g, env)
    \/ \E rev \in ManagerRevisions, a \in UserArgs, env \in ManagerEnvs :
          WrapperMain(rev, a, env)
    \/ \E ev \in ChildEvents : ChildEnds(ev)

Spec == Init /\ [][Next]_vars

\* The build command is run again on the same host after it has exited: a new
\* process, the same working directory with what the earlier run left in it.
Rerun ==
    /\ pc = "done"
    /\ mode = "current"
    /\ gopath.runs < MaxBuilds
    /\ gopath' = [gopath EXCEPT !.runs = @ + 1]
    /\ mode' = "none"
    /\ copyStrict' = FALSE
    /\ options' = [version |-> FALSE, source |-> FALSE]
    /\ pc' = "start"
    /\ idx' = 0
    /\ cur' = NoPlatform
    /\ version' = ""
    /\ fetches' = 0
    /\ dlLog' = <<>>
    /\ thrown' = NoError
    /\ steps' = <<>>
    /\ failed' = [step |-> "none"]
    /\ result' = NoResult
    /\ nReturned' = 0
    /\ results' = <<>>
    /\ lastExec' = NoExec
    /\ missing' = <<>>
    /\ exitCode' = NotExited
    /\ UNCHANGED <<host, processEnv, srcDir, built, outBin, bm, wrap, packaging>>

NextRebuild == Next \/ Rerun

SpecRebuild == Init /\ [][NextRebuild]_vars

\* The program's code is sequential: a handler that can take its next step
\* takes it, and execSync returns when the child exits or its timeout kills it.
FairSpec == Spec /\ WF_vars(Next)

(***************************************************************************)
(* The build executor on its own: executeCommand applied to every command, *)
(* every outcome of the child process and every state of go.work.          *)
(***************************************************************************)
ExecCommands == { "pip install dda", "docker --version", "go build ./cmd/agent" }
NotCalled == [threw |-> FALSE, value |-> Undefined, called |-> FALSE]

InitExec ==
    /\ host = [platform |-> "linux", arch |-> "x64"]
    /\ processEnv = DefaultEnv
    /\ mode = "none"
    /\ copyStrict = FALSE
    /\ options = [version |-> FALSE, source |-> FALSE]
    /\ pc = "exec"
    /\ idx = 0
    /\ cur = NoPlatform
    /\ version = ""
    /\ fetches = 0
    /\ srcDir = {}
    /\ dlLog = <<>>
    /\ thrown = NoError
    /\ steps = <<>>
    /\ failed = [step |-> "none"]
    /\ result = NoResult
    /\ nReturned = 0
    /\ results = <<>>
    /\ built = FALSE
    /\ outBin = FALSE
    /\ lastExec \in [command : ExecCommands, outcome : ExecOutcomes,
                     goWork : GoWorkStates, ret : {NotCalled}]
    /\ missing = <<>>
    /\ bm = NoManager
    /\ wrap = NoWrapper
    /\ exitCode = NotExited
    /\ packageJson = [version |-> "0.1.0", optionalDependencies |-> NoDependencies]
    /\ npm = NoPackages
    /\ script = NoScript
    /\ gopath = NoGoPath

\* One call of executeCommand; a throw is recorded as the call's outcome.
Execute ==
    /\ pc = "exec"
    /\ lastExec' = [lastExec EXCEPT
                      !.ret = ExecuteCommand(lastExec.command, lastExec.outcome,
                                             lastExec.goWork)]
    /\ pc' = "execDone"
    /\ UNCHANGED <<envVars, idx, cur, version, fetches, srcDir, dlLog, thrown, steps, failed,
                   result, nReturned, held, built, outBin, missing, consumer, exitCode>>

NextExec == Execute

SpecExec == InitExec /\ [][NextExec]_vars

(***************************************************************************)
(* Builder selection on its own: createBuilder called with every platform  *)
(* value a caller can hand over, of both representations, with and without *)
(* a known OS.                                                             *)
(***************************************************************************)
BuilderInputs ==
    { Platform(c, a) : c \in {"Linux", "MacOS", "Windows", "Unknown"},
                       a \in {"x86_64", "arm64"} }
    \cup [os : {"linux", "windows", "darwin", "freebsd"}, arch : {"x64", "arm64"}]

InitBuilder ==
    /\ host \in Hosts
    /\ processEnv = DefaultEnv
    /\ cur \in BuilderInputs
    /\ mode = IF "os" \in DOMAIN cur THEN "all" ELSE "current"
    /\ copyStrict \in (IF "os" \in DOMAIN cur THEN {FALSE} ELSE BOOLEAN)
    /\ options = [version |-> TRUE, source |-> TRUE]
    /\ pc = "createBuilder"
    /\ idx = 0
    /\ version = "7.66.1"
    /\ fetches = 0
    /\ srcDir = {"given"}
    /\ dlLog = <<>>
    /\ thrown = NoError
    /\ steps = <<>>
    /\ failed = [step |-> "none"]
    /\ result = NoResult
    /\ nReturned = 0
    /\ results = <<>>
    /\ built = FALSE
    /\ outBin = FALSE
    /\ lastExec = NoExec
    /\ missing = <<>>
    /\ bm = NoManager
    /\ wrap = NoWrapper
    /\ exitCode = NotExited
    /\ packageJson = [version |-> "0.1.0", optionalDependencies |-> NoDependencies]
    /\ npm = NoPackages
    /\ script = NoScript
    /\ gopath = NoGoPath

NextBuilder == StartBuilder

SpecBuilder == InitBuilder /\ [][NextBuilder]_vars

(***************************************************************************)
(* Packaging scripts: the update of the umbrella package's                 *)
(* optionalDependencies and create-platform-packages.js.                   *)
(***************************************************************************)
\* getAllSupportedPlatforms() of the class-based platform module: the names.
GetAllSupportedPlatformNames ==
    [i \in DOMAIN SUPPORTED_PLATFORMS |-> GetName(SUPPORTED_PLATFORMS[i]).value]

\* `@harperdb/datadog-agent-binary-${name}`.
PackageName(name) == "@harperdb/datadog-agent-binary-" \o name

\* Versions of the umbrella package, and what its optionalDependencies can
\* hold before the update script runs: nothing, an old pin, a retired platform.
Versions == {"0.1.0", "0.2.0"}
DependenciesBefore ==
    { NoDependencies,
      [k \in {PackageName("linux-x86_64")} |-> "0.0.9"],
      [k \in {PackageName("linux-x86_64"), PackageName("linux-ia32")} |-> "0.0.9"] }

PackagingHosts == Hosts \cup { [platform |-> "win32", arch |-> "arm64"] }
LastArgs == {"--all", "--dummy", "create-platform-packages.js"}

InitPackaging ==
    /\ host \in PackagingHosts
    /\ processEnv = DefaultEnv
    /\ mode = "packaging"
    /\ copyStrict = FALSE
    /\ options = [version |-> FALSE, source |-> FALSE]
    /\ pc = "scripts"
    /\ idx = 0
    /\ cur = NoPlatform
    /\ version = ""
    /\ fetches = 0
    /\ srcDir = {}
    /\ dlLog = <<>>
    /\ thrown = NoError
    /\ steps = <<>>
    /\ failed = [step |-> "none"]
    /\ result = NoResult
    /\ nReturned = 0
    /\ results = <<>>
    /\ built = FALSE
    /\ outBin = FALSE
    /\ lastExec = NoExec
    /\ missing = <<>>
    /\ bm = NoManager
    /\ wrap = NoWrapper
    /\ exitCode = NotExited
    /\ packageJson \in [version : Versions, optionalDependencies : DependenciesBefore]
    /\ npm = NoPackages
    /\ script = NoScript
    /\ gopath = NoGoPath

notPackaging == <<host, processEnv, mode, copyStrict, options, idx, cur, version, fetches, srcDir,
                  dlLog, thrown, buildLocals, held, built, outBin, missing, bm, wrap, gopath>>

\* The update script with a fault: the old optionalDependencies are kept and
\* the platform packages are added to them.
UpdateOptionalDependenciesKeepOld ==
    /\ pc = "scripts"
    /\ LET names == { PackageName(GetAllSupportedPlatformNames[i]) :
                        i \in DOMAIN GetAllSupportedPlatformNames }
           old == packageJson.optionalDependencies IN
       packageJson' = [packageJson EXCEPT !.optionalDependencies =
                          [k \in names \cup DOMAIN old |->
                              IF k \in names THEN packageJson.version ELSE old[k]]]
    /\ script' = [script EXCEPT !.updated = TRUE]
    /\ exitCode' = 0
    /\ UNCHANGED <<notPackaging, pc, npm>>

\* The update script: optionalDependencies = {}, then one entry per supported
\* platform name with the package's own version, then the file is written.
UpdateOptionalDependencies ==
    /\ pc = "scripts"
    /\ LET names == { PackageName(GetAllSupportedPlatformNames[i]) :
                        i \in DOMAIN GetAllSupportedPlatformNames } IN
       packageJson' = [packageJson EXCEPT !.optionalDependencies =
                          [k \in names |-> packageJson.version]]
    /\ script' = [script EXCEPT !.updated = TRUE]
    /\ exitCode' = 0
    /\ UNCHANGED <<notPackaging, pc, npm>>

\* create-platform-packages.js up to its forEach: the parent version, and the
\* platforms chosen by the last argument.  Platform.current() can throw.
CreatePlatformPackages(lastArg) ==
    /\ pc = "scripts"
    /\ LET c == PlatformCurrent(host) IN
       IF lastArg \notin {"--all", "--dummy"} /\ c.threw
       THEN /\ exitCode' = 1
            /\ UNCHANGED <<pc, script>>
       ELSE /\ script' = [script EXCEPT
                            !.version = packageJson.version,
                            !.dummy = (lastArg = "--dummy"),
                            !.platforms = IF lastArg \in {"--all", "--dummy"}
                                          THEN SUPPORTED_PLATFORMS ELSE <<c.value>>]
            /\ pc' = "packages"
            /\ exitCode' = NotExited
    /\ UNCHANGED <<notPackaging, packageJson, npm>>

\* One round of the forEach: createPackageDir, copyPlatformBinary unless the
\* packages are dummies, writePlatformPackageJson, writePlatformIndexJs.  A
\* throw ends the script; what was written before stays.
CreatePlatformPackage(binaryBuilt) ==
    /\ pc = "packages"
    /\ script.platforms # <<>>
    /\ LET p == Head(script.platforms)
           n == GetName(p)
           abort == /\ script' = [script EXCEPT !.platforms = <<>>]
                    /\ pc' = "scripts"
                    /\ exitCode' = 1
       IN
       IF n.threw
       THEN abort /\ UNCHANGED npm
       ELSE LET dir == n.value
                before == IF dir \in DOMAIN npm THEN npm[dir]
                          ELSE [manifest |-> NoManifest, binary |-> FALSE]
                after == [manifest |-> [name |-> PackageName(GetName(p).value),
                                        version |-> script.version],
                          binary |-> (before.binary \/ ~script.dummy)]
                Write(entry) == [d \in DOMAIN npm \cup {dir} |->
                                    IF d = dir THEN entry ELSE npm[d]]
            IN
            IF ~script.dummy /\ ~binaryBuilt
            THEN abort /\ npm' = Write(before)
            ELSE /\ npm' = Write(after)
                 /\ script' = [script EXCEPT !.platforms = Tail(script.platforms)]
                 /\ pc' = IF Tail(script.platforms) = <<>> THEN "scripts" ELSE "packages"
                 /\ exitCode' = IF Tail(script.platforms) = <<>> THEN 0 ELSE exitCode
    /\ UNCHANGED <<notPackaging, packageJson>>

NextPackaging ==
    \/ UpdateOptionalDependencies
    \/ \E a \in LastArgs : CreatePlatformPackages(a)
    \/ \E b \in BOOLEAN : CreatePlatformPackage(b)

SpecPackaging == InitPackaging /\ [][NextPackaging]_vars

(***************************************************************************)
(* The environment of the commands: executeCommand called several times by *)
(* builders of several platforms, under several parent environments.       *)
(***************************************************************************)
MaxCalls == 2

ParentEnvs ==
    { NoVariables, DefaultEnv,
      [PATH |-> "/usr/bin", GOPATH |-> "/home/dev/go", CGO_ENABLED |-> "0",
       HOME |-> "/home/dev"] }

EnvPlatforms ==
    { Platform("Linux", "arm64"), Platform("Windows", "x86_64"),
      [os |-> "linux", arch |-> "x64"], [os |-> "darwin", arch |-> "arm64"] }

\* The env option with a fault: the parent's entries override the builder's.
ChildEnvironmentParentWins(parent, variables) == Spread(variables, parent)

\* env: { ...process.env, ...this.getEnvironmentVariables() }.
ChildEnvironment(parent, variables) == Spread(parent, variables)

InitEnvironment ==
    /\ host \in Hosts
    /\ processEnv \in ParentEnvs
    /\ mode = "environment"
    /\ copyStrict \in BOOLEAN
    /\ options = [version |-> TRUE, source |-> TRUE]
    /\ pc = "execute"
    /\ idx = 0
    /\ cur \in EnvPlatforms
    /\ version = "7.66.1"
    /\ fetches = 0
    /\ srcDir = {"given"}
    /\ dlLog = <<>>
    /\ thrown = NoError
    /\ steps = <<>>
    /\ failed = [step |-> "none"]
    /\ result = NoResult
    /\ nReturned = 0
    /\ results = <<>>
    /\ built = FALSE
    /\ outBin = FALSE
    /\ lastExec = NoExec
    /\ missing = <<>>
    /\ bm = NoManager
    /\ wrap = NoWrapper
    /\ exitCode = NotExited
    /\ packageJson = [version |-> "0.1.0", optionalDependencies |-> NoDependencies]
    /\ npm = NoPackages
    /\ script = NoScript
    /\ gopath = NoGoPath

\* One executeCommand call of the builder of platform cur: the child gets
\* the spread of process.env and the builder's variables; process.env is
\* only read.
ExecuteInEnvironment(c, o) ==
    /\ pc = "execute"
    /\ Len(steps) < MaxCalls
    /\ steps' = Append(steps, c)
    /\ lastExec' =
          [command |-> c, outcome |-> o, ret |-> ExecuteCommand(c, o, "absent"),
           platform |-> cur,
           env |-> ChildEnvironment(processEnv,
                      GetEnvironmentVariables(Builder, cur, copyStrict, host, processEnv))]
    /\ UNCHANGED <<envVars, pc, idx, cur, version, fetches, srcDir, dlLog, thrown,
                   failed, result, nReturned, held, built, outBin, missing, exitCode,
                   consumer>>

\* The caller goes on to another platform: createBuilder(config) with the
\* next platform's BuildConfig.
NewBuilder(p) ==
    /\ pc = "execute"
    /\ steps # <<>>
    /\ Len(steps) < MaxCalls
    /\ p # cur
    /\ cur' = p
    /\ UNCHANGED <<envVars, pc, idx, version, fetches, srcDir, dlLog, thrown,
                   buildLocals, held, built, outBin, missing, exitCode, consumer>>

NextEnvironment ==
    \/ \E c \in ExecCommands, o \in PipelineOutcomes : ExecuteInEnvironment(c, o)
    \/ \E p \in EnvPlatforms : NewBuilder(p)

SpecEnvironment == InitEnvironment /\ [][NextEnvironment]_vars

(***************************************************************************)
(* The streaming executor (the long-running build command): the child's    *)
(* output goes to a rolling display window and to two accumulators.        *)
(***************************************************************************)
WindowSize == 6
MaxLines == 7

Streams == {"stdout", "stderr"}
LineTexts == {"compiling", "warning"}

\* The execution before spawn: nothing emitted, nothing shown, nothing kept.
NotSpawned ==
    [state |-> "spawn", emitted |-> <<>>, window |-> <<>>, stdout |-> <<>>,
     stderr |-> <<>>, rejection |-> Undefined]

InitStreaming ==
    /\ host \in {[platform |-> "linux", arch |-> "x64"]}
    /\ processEnv = DefaultEnv
    /\ mode = "streaming"
    /\ copyStrict = TRUE
    /\ options = [version |-> TRUE, source |-> TRUE]
    /\ pc = "streaming"
    /\ idx = 0
    /\ cur = [os |-> "linux", arch |-> "x64"]
    /\ version = "7.66.1"
    /\ fetches = 0
    /\ srcDir = {"given"}
    /\ dlLog = <<>>
    /\ thrown = NoError
    /\ steps = <<>>
    /\ failed = [step |-> "none"]
    /\ result = NoResult
    /\ nReturned = 0
    /\ results = <<>>
    /\ built = FALSE
    /\ outBin = FALSE
    /\ lastExec = NotSpawned
    /\ missing = <<>>
    /\ bm = NoManager
    /\ wrap = NoWrapper
    /\ exitCode = NotExited
    /\ packageJson = [version |-> "0.1.0", optionalDependencies |-> NoDependencies]
    /\ npm = NoPackages
    /\ script = NoScript
    /\ gopath = NoGoPath

\* Spawn the process; a spawn-level error rejects at once.
Spawn(ok) ==
    /\ pc = "streaming"
    /\ lastExec.state = "spawn"
    /\ lastExec' = IF ok THEN [lastExec EXCEPT !.state = "running"]
                   ELSE [lastExec EXCEPT !.state = "rejected",
                                         !.rejection = [code |-> Undefined,
                                                        stderr |-> <<>>,
                                                        message |-> "spawn ENOENT"]]
    /\ UNCHANGED <<envVars, pc, idx, cur, version, fetches, srcDir, dlLog, thrown,
                   steps, failed, result, nReturned, held, built, outBin, missing,
                   exitCode, consumer>>

\* The window with a fault: once full it stops rolling.
RollStopsWhenFull(window, line) ==
    IF Len(window) < WindowSize THEN Append(window, line) ELSE window

\* The window after one more line: the last WindowSize lines.
Roll(window, line) ==
    IF Len(window) < WindowSize THEN Append(window, line)
    ELSE Append(SubSeq(window, 2, Len(window)), line)

\* One line arrives on a stream: it enters the window and is appended to the
\* accumulator of its stream.
OnData(stream, line) ==
    /\ pc = "streaming"
    /\ lastExec.state = "running"
    /\ Len(lastExec.emitted) < MaxLines
    /\ lastExec' =
          [lastExec EXCEPT
             !.emitted = Append(@, [stream |-> stream, line |-> line]),
             !.window = Roll(@, line),
             !.stdout = IF stream = "stdout" THEN Append(@, line) ELSE @,
             !.stderr = IF stream = "stderr" THEN Append(@, line) ELSE @]
    /\ UNCHANGED <<envVars, pc, idx, cur, version, fetches, srcDir, dlLog, thrown,
                   steps, failed, result, nReturned, held, built, outBin, missing,
                   exitCode, consumer>>

\* The process exits: exit code 0 resolves, any other code rejects with the
\* code and the whole captured stderr.
OnClose(code) ==
    /\ pc = "streaming"
    /\ lastExec.state = "running"
    /\ lastExec' = IF code = 0 THEN [lastExec EXCEPT !.state = "resolved"]
                   ELSE [lastExec EXCEPT !.state = "rejected",
                                         !.rejection = [code |-> code,
                                                        stderr |-> lastExec.stderr,
                                                        message |-> "exit"]]
    /\ UNCHANGED <<envVars, pc, idx, cur, version, fetches, srcDir, dlLog, thrown,
                   steps, failed, result, nReturned, held, built, outBin, missing,
                   exitCode, consumer>>

NextStreaming ==
    \/ \E ok \in BOOLEAN : Spawn(ok)
    \/ \E stream \in Streams, line \in LineTexts : OnData(stream, line)
    \/ \E code \in {0, 1} : OnClose(code)

SpecStreaming == InitStreaming /\ [][NextStreaming]_vars

(***************************************************************************)
(* Properties.                                                             *)
(***************************************************************************)
Last(seq) == seq[Len(seq)]

\* `needle` occurs in `text`.
Contains(text, needle) ==
    \E i \in 1..(Len(text) - Len(needle) + 1) :
        SubSeq(text, i, i + Len(needle) - 1) = needle

\* C1: in every builder's build(), when a step fails (output directory,
\* precondition check, a build command, the artifact copy, a container
\* sub-step), that step is the last one executed and build() returns exactly
\* one BuildResult, with success = false and the causing error's message.
C1_FailedStepEndsBuild ==
    (result.returned /\ failed.step # "none") =>
        /\ ~result.success
        /\ result.error = failed.error.message
        /\ Last(steps) = failed.step
        /\ nReturned = 1

\* C2: a BuildResult with success = true is returned only if the platform's
\* main binary is present at the output path, on the native path and on the
\* containerized path alike.
C2_SuccessImpliesBinary ==
    (result.returned /\ result.success) => outBin

\* downloadSource of the current buildForPlatform call has failed: its last
\* acquisition attempt failed and the error is propagating.
DownloadFailed ==
    /\ thrown # NoError
    /\ dlLog # <<>>
    /\ ~Last(dlLog).ok

Attempted(step) == \E i \in DOMAIN dlLog : dlLog[i].step = step
StepFailed(step) == \E i \in DOMAIN dlLog : dlLog[i] = [step |-> step, ok |-> FALSE]

\* C4: downloadSource tries the clone first; the archive download is
\* attempted if and only if the clone step failed; a failed archive download
\* ends downloadSource with an error, with no further attempt.
C4_ArchiveIffCloneFailed ==
    /\ dlLog # <<>> => dlLog[1].step = "clone"
    /\ Attempted("archive") => StepFailed("clone")
    /\ (StepFailed("clone") /\ pc # "dlFetch") => Attempted("archive")
    /\ StepFailed("archive") =>
          /\ Last(dlLog) = [step |-> "archive", ok |-> FALSE]
          /\ thrown # NoError

\* C5: after downloadSource has returned successfully the target directory
\* holds only the freshly acquired tree, whatever was there before and
\* whatever the clone, the version probe and the archive fallback did.
C5_OnlyFreshTree ==
    pc = "dlDone" => (srcDir = {"clone"} \/ srcDir = {"archive"})

\* C6: executeCommand returns the captured stdout and does not throw when
\* the command exits with code 0, and throws an error that exposes the exit
\* code when the command exits with a nonzero code.
C6_ExitCodeDecidesOutcome ==
    (pc = "execDone" /\ lastExec.outcome.kind = "exit") =>
        IF lastExec.outcome.code = 0
        THEN /\ ~lastExec.ret.threw
             /\ lastExec.ret.value = lastExec.outcome.stdout
        ELSE /\ lastExec.ret.threw
             /\ lastExec.ret.error.exited
             /\ lastExec.ret.error.status = lastExec.outcome.code

C6_Witness ==
    /\ pc = "execDone"
    /\ lastExec.outcome.kind = "exit"
    /\ lastExec.outcome.code = MaxExitCode
    /\ lastExec.goWork = "godebug"
    /\ lastExec.ret.threw

\* C7: checkBuildDependencies returns normally for every platform and every
\* set of missing tools, having only recorded (warned about) the missing
\* ones, and buildForPlatform goes on to create and run the builder.
C7_DependencyCheckNeverBlocks ==
    [][ /\ pc = "checkDeps" =>
            /\ pc' = "createBuilder"
            /\ thrown' = thrown
            /\ \A i \in DOMAIN missing' : missing'[i] \in AllTools
        /\ pc = "createBuilder" => pc' = "ensureOutputDirectory" ]_vars

C7_Witness ==
    /\ pc = "createBuilder"
    /\ missing = <<"go", "make", "gcc", "git">>

\* The call of ensureBinary got as far as looking for the binary: the host
\* is a supported platform and the version is resolved.
LookupReached ==
    /\ bm.rev # "none"
    /\ ~DetectPlatform(host).threw
    /\ (bm.given # "" \/ bm.env.feedOk)

\* C8: ensureBinary returns the expected on-disk path exactly when a regular
\* file exists there; otherwise it fails with a "binary not found" error
\* that names the expected path; it never downloads anything.
C8_EnsureBinaryOnlyLooksUp ==
    LookupReached =>
        /\ bm.ret.downloads = 0
        /\ bm.ret.path # ""
        /\ IF bm.env.entry = "file"
           THEN ~bm.ret.threw /\ bm.ret.value = bm.ret.path
           ELSE /\ bm.ret.threw
                /\ Contains(bm.ret.error.message, "not found")
                /\ Contains(bm.ret.error.message, bm.ret.path)

\* C9: the wrapper hands all of its command-line arguments unchanged to the
\* real binary and ends with the child's exit status: the child's exit code
\* when it exited, a nonzero status when it was killed by a signal.
C9_WrapperForwardsArgsAndStatus ==
    (mode = "wrapper" /\ pc = "done" /\ "ended" \in DOMAIN wrap) =>
        /\ wrap.file = bm.ret.value
        /\ wrap.argv = <<"node", "bin/datadog-agent">> \o wrap.args
        /\ wrap.ended.kind = "exit" => exitCode = wrap.ended.code
        /\ wrap.ended.kind = "signal" => exitCode # 0

\* C10: the build command exits with 0 exactly when no error was thrown and
\* every requested platform's BuildResult has success = true, and with 1
\* otherwise; the install command exits with 1 when the binary is missing.
C10_ExitCodes ==
    pc = "done" =>
        /\ mode \in {"current", "all"} =>
              /\ exitCode \in {0, 1}
              /\ exitCode = 0 <=>
                    /\ thrown = NoError
                    /\ results # <<>>
                    /\ \A i \in DOMAIN results : results[i].success
        /\ (mode = "install" /\ ~bm.env.optional /\ bm.env.entry # "file") =>
              exitCode = 1

\* C11: buildForAllPlatforms yields exactly one BuildResult per platform of
\* the enumeration, in enumeration order; a platform's failure, returned or
\* thrown, does not stop the loop, and an entry once in the list stays.
C11_OneResultPerPlatformInOrder ==
    /\ [](mode = "all" =>
            /\ \A i \in DOMAIN results :
                  results[i].platform = GetAllSupportedPlatforms[i]
            /\ pc \in {"summary", "done"} => Len(results) = NumPlatforms
            /\ pc = "loopEnd" => (Len(results) = idx /\ Last(results) = Brief(result))
            /\ pc \notin {"summary", "done", "loopEnd"} => Len(results) = idx - 1)
    /\ [][mode = "all" =>
            \A i \in DOMAIN results :
                i \in DOMAIN results' /\ results'[i] = results[i]]_vars

C11_Witness ==
    /\ mode = "all"
    /\ pc = "done"
    /\ Len(results) = NumPlatforms
    /\ ~results[1].success
    /\ results[2].success

\* The supported Platform a host's process.platform / process.arch pair names,
\* when it names one.
HostClass(h) ==
    CASE h.platform = "linux"  -> "Linux"
      [] h.platform = "darwin" -> "MacOS"
      [] h.platform = "win32"  -> "Windows"
      [] OTHER -> "Unknown"

HostArch(h) ==
    CASE h.arch = "x64"   -> "x86_64"
      [] h.arch = "arm64" -> "arm64"
      [] OTHER -> "other"

HostIsSupported(h) ==
    \E i \in DOMAIN SUPPORTED_PLATFORMS :
        SUPPORTED_PLATFORMS[i] = Platform(HostClass(h), HostArch(h))

\* C12: once the build command has asked for the current platform,
\* Platform.current() has returned the supported Platform matching the host
\* when the host is a supported OS/architecture pair, and has failed for every
\* other host.
C12_CurrentMatchesOrFails ==
    mode = "current" =>
        LET c == PlatformCurrent(host) IN
        IF HostIsSupported(host)
        THEN ~c.threw /\ c.value = Platform(HostClass(host), HostArch(host))
        ELSE c.threw

\* C13: getName is injective over SUPPORTED_PLATFORMS: every supported
\* platform has a name, two different entries of the list never have the same
\* name, and so the name the build command derives for the current platform
\* belongs to that platform alone.
C13_GetNameInjective ==
    /\ \A i, j \in DOMAIN SUPPORTED_PLATFORMS :
          /\ ~GetName(SUPPORTED_PLATFORMS[i]).threw
          /\ GetName(SUPPORTED_PLATFORMS[i]) = GetName(SUPPORTED_PLATFORMS[j]) => i = j
    /\ (mode = "current" /\ cur # NoPlatform) =>
          \A i \in DOMAIN SUPPORTED_PLATFORMS :
              GetName(SUPPORTED_PLATFORMS[i]) = GetName(cur) => SUPPORTED_PLATFORMS[i] = cur

C13_Witness ==
    /\ mode = "current"
    /\ cur = Platform("MacOS", "arm64")
    /\ GetName(cur).value = "macos-arm64"
    /\ GetName(Platform("MacOS", "x86_64")).value = "macos-x86_64"
    /\ pc = "done"

\* The path a successful build reports and copyBinariesToOutput writes is the
\* path copyPlatformBinary reads.
WrittenPathIsPackagingPath ==
    (mode = "current" /\ result.returned /\ result.success /\ outBin) =>
        result.outputPath = CopyPlatformBinaryPath(cur)

\* C14: when the build command reports success for the current platform, the
\* main binary is in the output directory, at build/<os>-<arch>/bin/ under
\* the platform's binary name (datadog-agent.exe on Windows, datadog-agent
\* elsewhere), which is the path copyPlatformBinary reads.
C14_BuildWritesWherePackagingReads ==
    /\ WrittenPathIsPackagingPath
    /\ (mode = "current" /\ result.returned /\ result.success) => outBin

\* getLatestVersion has been called in the current buildForPlatform call.
FeedAsked == fetches > 0

\* One request per call, and a call that did not return has thrown an error
\* with a message.
OneRequestOrDescriptiveError ==
    /\ fetches <= 1
    /\ (~options.version /\ version # "") => FeedAsked
    /\ (FeedAsked /\ version = "" /\ pc \notin {"loopEnd", "summary"}) =>
          (thrown # NoError /\ thrown.message # "")

\* C15: getLatestVersion issues exactly one release-feed request per call;
\* it fails with a descriptive error when the feed is unreachable, answers
\* with a non-OK status or sends a body without the tag field; otherwise it
\* returns the tag.  So a version it returned is always a tag.
C15_LatestVersionIsTagOrError ==
    /\ OneRequestOrDescriptiveError
    /\ (FeedAsked /\ version # "") => version = "7.67.0"

InSteps(step) == \E i \in DOMAIN steps : steps[i] = step

\* build() of the Linux or Windows builder has started.
CrossCapableBuildStarted == steps # <<>> /\ ~IsMacBuilder(Builder)

\* build() has gone past the choice between the two paths.
PathChosen ==
    \E i \in DOMAIN steps : steps[i] \notin {"ensureOutputDirectory", "isDockerAvailable"}

\* On a host whose OS is the target OS, Docker is neither probed nor used.
NativeHostNeverUsesDocker ==
    (CrossCapableBuildStarted /\ host.platform = NativeHost(Builder)) =>
        ~(InSteps("docker build") \/ InSteps("isDockerAvailable"))

\* C16: in build() of the Linux and Windows builders, on a host whose OS is
\* not the target OS (no cross-toolchain exists in this code) the build goes
\* through buildWithDocker, and on a host whose OS is the target OS
\* buildWithDocker is never entered.
C16_DockerIffForeignHost ==
    /\ NativeHostNeverUsesDocker
    /\ (CrossCapableBuildStarted /\ host.platform # NativeHost(Builder) /\ PathChosen) =>
          InSteps("docker build")

\* buildWithDocker has ended in its catch block because the image build or
\* the run of the script in the container failed.
ContainerBuildFailed ==
    /\ result.returned
    /\ InSteps("docker build")
    /\ failed.step \in {"docker build", "docker run"}

\* The failed containerized build is reported with the underlying message.
ContainerFailureIsReported ==
    ContainerBuildFailed =>
        /\ ~result.success
        /\ result.error # ""
        /\ result.error = failed.error.message

\* C17: on the containerized path, a failure of the image build or of the
\* script in the container gives a BuildResult with success = false and a
\* non-empty error equal to the underlying error message, and the failed
\* run leaves no artifact in the output directory.
C17_ContainerFailureLeavesNothing ==
    /\ ContainerFailureIsReported
    /\ ContainerBuildFailed => ~outBin

\* The OS-family tag createBuilder switches on: getOS() of a Platform
\* instance, the os property of a plain record; "none" when getOS() throws.
OsTag(p) ==
    IF "os" \in DOMAIN p THEN p.os
    ELSE IF GetOS(p).threw THEN "none" ELSE GetOS(p).value

\* The builder type of each known tag; the macOS family is tagged "macos" by
\* getOS() and "darwin" in the plain records.
BuilderOfTag(tag) ==
    CASE tag = "linux"   -> {"LinuxBuilder"}
      [] tag = "windows" -> {"WindowsBuilder"}
      [] tag \in {"macos", "darwin"} -> {"MacOSBuilder", "DarwinBuilder"}
      [] OTHER -> {}

\* C18: createBuilder maps the platform's OS-family tag to one builder type,
\* the same for every platform of the family; for a platform whose tag is
\* none of linux, windows, macos it fails at once with an error that says
\* the platform is not supported, and no builder is constructed.
C18_BuilderIsFunctionOfOsTag ==
    pc # "createBuilder" =>
        IF BuilderOfTag(OsTag(cur)) # {}
        THEN /\ pc = "ensureOutputDirectory"
             /\ thrown = NoError
             /\ Builder \in BuilderOfTag(OsTag(cur))
             /\ \A q \in BuilderInputs :
                   OsTag(q) = OsTag(cur) => CreateBuilder(q) = CreateBuilder(cur)
        ELSE /\ pc = "thrown"
             /\ steps = <<>>
             /\ \/ thrown.message = "Unknown OS"
                \/ Contains(thrown.message, "Unsupported platform: ")
                \/ Contains(thrown.message, "Unsupported OS: ")

C18_Witness ==
    /\ cur = Platform("Unknown", "x86_64")
    /\ pc = "thrown"
    /\ thrown.message = "Unknown OS"

\* The per-platform packages of the supported platforms.
PlatformPackages ==
    { "@harperdb/datadog-agent-binary-linux-x86_64",
      "@harperdb/datadog-agent-binary-linux-arm64",
      "@harperdb/datadog-agent-binary-macos-x86_64",
      "@harperdb/datadog-agent-binary-macos-arm64",
      "@harperdb/datadog-agent-binary-windows-x86_64" }

\* C19: once the update script has run, the umbrella package's
\* optionalDependencies are exactly the packages of the supported platforms,
\* each with the umbrella package's own version; and every platform package
\* the packaging script has generated is named
\* @harperdb/datadog-agent-binary-<its platform name> and has that version,
\* so that it is the package the umbrella's entry asks for.
C19_OptionalDependenciesMatchPackages ==
    /\ script.updated =>
          /\ DOMAIN packageJson.optionalDependencies = PlatformPackages
          /\ \A k \in PlatformPackages :
                packageJson.optionalDependencies[k] = packageJson.version
    /\ \A d \in DOMAIN npm :
          npm[d].manifest # NoManifest =>
             /\ npm[d].manifest.name = "@harperdb/datadog-agent-binary-" \o d
             /\ npm[d].manifest.version = packageJson.version
             /\ (script.updated /\ npm[d].manifest.name \in PlatformPackages) =>
                   packageJson.optionalDependencies[npm[d].manifest.name]
                       = npm[d].manifest.version

C19_Witness ==
    /\ script.updated
    /\ pc = "scripts"
    /\ packageJson.version = "0.2.0"
    /\ DOMAIN npm = {"linux-x86_64", "linux-arm64", "macos-x86_64", "macos-arm64",
                     "windows-x86_64"}
    /\ \A d \in DOMAIN npm : npm[d].manifest.version = "0.2.0" /\ npm[d].binary

\* Position of a step in the order of one build invocation; the container
\* cross-build (image, script, run) and the shared build procedure (build
\* tool, Go tools, agent) are the two alternatives of the middle part.
StepRank(step) ==
    CASE step = "ensureOutputDirectory" -> 1
      [] step = "isDockerAvailable"     -> 2
      [] step \in {"docker build", "pip install dda"} -> 3
      [] step \in {"writeBuildScript", "dda --no-interactive inv install-tools"} -> 4
      [] step \in {"docker run",
                   "dda --no-interactive inv agent.build --build-exclude=systemd"} -> 5
      [] step = "copyBinariesToOutput"  -> 6
      [] OTHER -> 0

ContainerSteps == {"docker build", "writeBuildScript", "docker run"}

\* The steps taken so far are in order, none twice, none skipped, and of one
\* alternative only.
StepsInOrder ==
    CrossCapableBuildStarted =>
        /\ steps[1] = "ensureOutputDirectory"
        /\ \A i \in DOMAIN steps : StepRank(steps[i]) > 0
        /\ \A i, j \in DOMAIN steps : i < j => StepRank(steps[i]) < StepRank(steps[j])
        /\ \A i \in DOMAIN steps :
              (i > 1 /\ steps[i] # "isDockerAvailable") =>
                  \/ StepRank(steps[i - 1]) = StepRank(steps[i]) - 1
                  \/ (StepRank(steps[i]) = 3 /\ steps[i - 1] = "ensureOutputDirectory")
        /\ ~(\E i, j \in DOMAIN steps :
                /\ steps[i] \in ContainerSteps
                /\ StepRank(steps[j]) \in 3..5 /\ steps[j] \notin ContainerSteps)

\* C20: within one invocation of build() of the Linux and Windows builders
\* the steps run in the order ensure-output-directory, then the container
\* cross-build or the three commands of the shared procedure, then
\* copy-artifacts; no step runs twice; and a successful BuildResult is
\* returned only after the copy-artifacts step has completed.
C20_StepOrderAndSuccessAfterCopy ==
    /\ StepsInOrder
    /\ (CrossCapableBuildStarted /\ result.returned /\ result.success) =>
          Last(steps) = "copyBinariesToOutput"

\* createBuilder(config).build() has been called in the current
\* buildForPlatform call.
BuilderStarted ==
    /\ mode \in {"current", "all"}
    /\ (pc = "ensureOutputDirectory" \/ steps # <<>>)

\* downloadSource of the current call has returned the source directory.
DownloadReturned == dlLog # <<>> /\ Last(dlLog).ok /\ pc \notin {"dlProbe", "dlExtract"}

\* C21 (as stated): the builder is started only after downloadSource has
\* returned successfully, with the target version resolved before.
C21_BuilderOnlyAfterDownload ==
    BuilderStarted => (version # "" /\ DownloadReturned)

\* The order of the calls inside buildForPlatform, step by step.
BuildForPlatformOrder ==
    /\ pc' = "dlPrepare" => (pc = "resolveVersion" /\ version' # "" /\ ~options.source)
    /\ pc' = "checkDeps" =>
          \/ pc = "checkDeps"
          \/ (pc = "dlDone" /\ DownloadReturned /\ version # "")
          \/ (pc = "resolveVersion" /\ options.source /\ version' # "")
    /\ pc' = "createBuilder" => pc \in {"checkDeps", "createBuilder"}
    /\ pc' = "ensureOutputDirectory" => pc \in {"createBuilder", "ensureOutputDirectory"}

\* C21 (amended): the target version is resolved first; then downloadSource
\* runs, unless the caller supplied a source directory, in which case it is
\* skipped; then checkBuildDependencies; and the builder is started only
\* after the dependency check has returned and, when no source directory was
\* supplied, after downloadSource has returned successfully.
C21_BuilderAfterDownloadUnlessSourceGiven ==
    /\ [](BuilderStarted =>
            /\ version # ""
            /\ IF options.source THEN dlLog = <<>> /\ mode = "all"
               ELSE DownloadReturned)
    /\ [][BuildForPlatformOrder]_vars

C21_Witness ==
    /\ pc = "ensureOutputDirectory"
    /\ mode = "current"
    /\ ~options.version
    /\ version = "7.67.0"
    /\ Last(dlLog) = [step |-> "extract", ok |-> TRUE]

\* The platforms the running entry point can be asked to build.
BuildablePlatforms ==
    IF mode = "all"
    THEN { GetAllSupportedPlatforms[i] : i \in DOMAIN GetAllSupportedPlatforms }
    ELSE { SUPPORTED_PLATFORMS[i] : i \in DOMAIN SUPPORTED_PLATFORMS }

\* The directories a build of platform p writes: the source directory, the
\* output directory and the GOPATH of the commands' environment.
WrittenDirectories(p) ==
    { SourceDir(p, mode), OutputDir(p, mode),
      GetEnvironmentVariables(CreateBuilder(p).value, p, copyStrict, host,
                              processEnv)["GOPATH"] }

\* buildForPlatform is running for platform cur.
BuildingPlatform == mode \in {"current", "all"} /\ cur # NoPlatform

\* The output directories of two different platforms differ.
OutputDirectoriesDistinct ==
    BuildingPlatform =>
        \A q \in BuildablePlatforms : q # cur => OutputDir(q, mode) # OutputDir(cur, mode)

\* C22: the directories the build of the current platform writes are
\* distinct from the directories a build of any other supported platform
\* writes, so two builds running at once never write the same directory.
C22_DirectoriesDisjointAcrossPlatforms ==
    /\ OutputDirectoriesDistinct
    /\ BuildingPlatform =>
          \A q \in BuildablePlatforms :
              q # cur => WrittenDirectories(q) \cap WrittenDirectories(cur) = {}

\* The build-arch string of a platform's architecture: amd64 for x86_64
\* (x64 in the plain records), arm64 for arm64.
BuildArch(p) == IF p.arch \in {"x86_64", "x64"} THEN "amd64" ELSE "arm64"

\* The variables the builder adds to the environment of the command that
\* build() is about to run.
CommandVariables ==
    GetEnvironmentVariables(Builder, cur, copyStrict, host, processEnv)

\* linux-arm64 built on a linux-x86_64 host without a container.
NativeCrossArchBuild ==
    /\ Builder = "LinuxBuilder"
    /\ host = [platform |-> "linux", arch |-> "x64"]
    /\ BuildArch(cur) = "arm64"
    /\ ~InSteps("docker build")

\* The scenario of C23: linux-arm64 on a linux-x86_64 host gets the
\* target-arch variable and the cross-compiler variables.
CrossCompilerVariablesSet ==
    (pc = "commands" /\ NativeCrossArchBuild) =>
        /\ "GOARCH" \in DOMAIN CommandVariables
        /\ CommandVariables["GOARCH"] = BuildArch(cur)
        /\ {"CC", "CXX"} \subseteq DOMAIN CommandVariables

\* C23: the environment passed to every build command sets the target-arch
\* variable to the build-arch string of the target platform (amd64 for
\* x86_64, arm64 for arm64); for linux-arm64 on a linux-x86_64 host it also
\* sets the cross-compiler variables, and that build runs without a container.
C23_TargetArchAndCrossCompiler ==
    /\ CrossCompilerVariablesSet
    /\ pc = "commands" =>
          /\ "GOARCH" \in DOMAIN CommandVariables
          /\ CommandVariables["GOARCH"] = BuildArch(cur)

\* The builder's variables for the platform of the last call.
VariablesOfLastCall ==
    GetEnvironmentVariables(CreateBuilder(lastExec.platform).value, lastExec.platform,
                            copyStrict, host, processEnv)

\* C24: executeCommand never changes process.env; the environment of each
\* child is process.env with the builder's variables added, a builder
\* variable replacing the parent's entry of the same name, and the variables
\* are those of the platform whose builder makes the call.
C24_ChildEnvIsParentPlusOverrides ==
    /\ [](lastExec # NoExec =>
            /\ DOMAIN lastExec.env = DOMAIN processEnv \cup DOMAIN VariablesOfLastCall
            /\ \A k \in DOMAIN lastExec.env :
                  lastExec.env[k] = IF k \in DOMAIN VariablesOfLastCall
                                    THEN VariablesOfLastCall[k] ELSE processEnv[k])
    /\ [][/\ processEnv' = processEnv
          /\ lastExec' # lastExec => lastExec'.platform = cur]_vars

C24_Witness ==
    /\ Len(steps) = MaxCalls
    /\ "HOME" \in DOMAIN processEnv
    /\ processEnv["GOPATH"] = "/home/dev/go"
    /\ lastExec.env["GOPATH"] = "/cwd/go"
    /\ lastExec.env["HOME"] = "/home/dev"
    /\ lastExec.platform = [os |-> "darwin", arch |-> "arm64"]

XcodeHint == "Xcode command line tools not found. Run: xcode-select --install"

\* The macOS builder's build() is between the failure of checkXcodeTools and
\* the caller's use of its result.
XcodeCheckFailed ==
    /\ mode \in {"current", "all"}
    /\ pc \in {"buildCatch", "returned"}
    /\ failed.step = "checkXcodeTools"

\* C25: a failed Xcode check in the macOS builder ends the build as a failed
\* BuildResult with the remediation hint as its error; the check ran once and
\* no step after it (dependencies, build, copy) ran.
C25_XcodeCheckFailureEndsBuild ==
    XcodeCheckFailed =>
        /\ IsMacBuilder(Builder)
        /\ steps = <<"ensureOutputDirectory", "checkXcodeTools">>
        /\ failed.error.message = XcodeHint
        /\ pc = "returned" =>
              /\ result.returned /\ ~result.success
              /\ result.error = XcodeHint
              /\ result.platform = cur
              /\ result.outputPath = Undefined

C25_Witness ==
    /\ XcodeCheckFailed
    /\ pc = "returned"
    /\ result.error = XcodeHint
    /\ ~outBin

IsStdout(e) == e.stream = "stdout"

IsStderr(e) == e.stream = "stderr"

LinesOf(events) == [i \in 1..Len(events) |-> events[i].line]

LastLines(lines, k) ==
    IF Len(lines) <= k THEN lines ELSE SubSeq(lines, Len(lines) - k + 1, Len(lines))

\* C26: in streaming mode the display window holds at most 6 lines and is the
\* last min(6, n) of the n lines emitted so far; the accumulated stdout and
\* stderr are all the lines emitted on their stream, whatever the window holds.
C26_WindowIsLastSixAndOutputComplete ==
    mode = "streaming" =>
        /\ Len(lastExec.window) <= 6
        /\ lastExec.window = LastLines(LinesOf(lastExec.emitted), 6)
        /\ lastExec.stdout = LinesOf(SelectSeq(lastExec.emitted, IsStdout))
        /\ lastExec.stderr = LinesOf(SelectSeq(lastExec.emitted, IsStderr))

C26_Witness ==
    /\ mode = "streaming"
    /\ Len(lastExec.emitted) = 7
    /\ Len(lastExec.window) = 6
    /\ Len(lastExec.stderr) = 3
    /\ lastExec.emitted[1].line # lastExec.emitted[7].line
    /\ lastExec.state = "rejected"

\* A builder's build() has returned and the caller has not yet gone on.
BuilderReturned == mode \in {"current", "all"} /\ pc = "returned" /\ result.returned

\* C27: a BuildResult returned by a builder is either a success with an
\* output path and no error, or a failure with a non-empty error message and
\* no output path; its platform is the platform of the build's BuildConfig.
C27_BuildResultWellFormed ==
    BuilderReturned =>
        /\ result.platform = cur
        /\ IF result.success
           THEN result.outputPath # Undefined /\ result.outputPath # ""
                /\ result.error = Undefined
           ELSE result.error # Undefined /\ result.error # ""
                /\ result.outputPath = Undefined

C27_Witness ==
    /\ BuilderReturned
    /\ ~result.success
    /\ InSteps("docker run")
    /\ host.platform = "darwin"
    /\ result.platform = [os |-> "linux", arch |-> "arm64"]

\* The CLI build of the current platform has returned a success.
CurrentBuildSucceeded ==
    mode = "current" /\ pc = "returned" /\ result.returned /\ result.success

\* Where ensureBinary(version) looks for the host's binary, in either
\* revision of the binary manager, taking the package root to be the
\* directory the build ran in.
EnsureBinaryLooksAt ==
    { "/cwd/" \o EnsureBinary(rev, host, version,
                             [feedOk |-> TRUE, optional |-> FALSE,
                              entry |-> "file", dl |-> TRUE]).path :
        rev \in ManagerRevisions }

\* C28: the path where ensureBinary(v) looks for the current platform's
\* binary is the path where a successful CLI build with the default output
\* directory has put it.
C28_EnsureBinaryFindsBuiltBinary ==
    CurrentBuildSucceeded => result.outputPath \in EnsureBinaryLooksAt

\* A builder's build() is running: entered, and neither returned nor left.
BuildRunning ==
    /\ mode \in {"current", "all"}
    /\ pc \in {"ensureOutputDirectory", "isDockerAvailable", "checkXcodeTools",
               "commands", "copyBinariesToOutput", "buildSuccess", "buildCatch",
               "dockerBuild", "dockerScript", "dockerRun", "dockerSuccess",
               "dockerCatch"}

NoStepReentered ==
    mode \in {"current", "all"} =>
        \A i, j \in 1..Len(steps) : i # j => steps[i] # steps[j]

\* A timed-out command is a failed command: the build is in its catch block
\* or has returned the failure.
TimeoutIsFailure ==
    (BuildRunning /\ failed.step # "none"
        /\ failed.error.message = "spawnSync /bin/sh ETIMEDOUT")
    => pc \in {"buildCatch", "dockerCatch"}

AtSetupGoPath == pc = "dlDone" /\ mode = "current"

\* What one setupGoPathStructure call does, by the link it finds.
SetupGoPathIdempotent ==
    AtSetupGoPath =>
        IF gopath.link
        THEN pc' = "checkDeps" /\ gopath' = gopath
        ELSE pc' = "checkDeps" => gopath'.link /\ gopath'.symlinks = gopath.symlinks + 1

\* C30: the first buildForPlatform of a platform creates the GOPATH symlink;
\* every later one, run after downloadSource has removed and recreated the
\* source directory, finds it, leaves it in place, creates no second link
\* and does not fail in setupGoPathStructure.
C30_GoPathSetupIdempotent ==
    /\ [](gopath.symlinks <= 1 /\ (gopath.link <=> gopath.symlinks = 1))
    /\ [][SetupGoPathIdempotent]_vars

C30_Witness ==
    /\ gopath.runs = 2
    /\ mode = "current"
    /\ pc = "checkDeps"
    /\ gopath.link
    /\ gopath.symlinks = 1
    /\ srcDir # {}

====
